---- MODULE Spec2Model ----
(***************************************************************************)
(* MiniGo compiler (taozi-lecturas/Compilador-Go): the semantic analyzer   *)
(* (semant.py), the LLVM code generator (codegen.py), the driver           *)
(* (main.py, parse_file) and the execution of the generated control-flow   *)
(* graph, as one state machine over a bounded family of parser-producible  *)
(* ASTs.                                                                   *)
(***************************************************************************)
EXTENDS Integers, Sequences, FiniteSets, TLC

VARIABLES
    lexer,          \* mg_lexer.lexer, the one lexer of the module: lexdata, lexpos, lineno
    drv,            \* main.py: the files left to main(), and in parse_file the processed
                    \* text, the tokens of the tokenization and the SyntaxError caught
    ast,            \* the Program node handed to analyze() and compile()
    pc,             \* position of the driver: "analyze", "generate", "run", "done", "rejected", "failed"
    scopes,         \* SymbolTable.scopes: stack of scopes, each a function name -> type
    errors,         \* SemanticAnalyzer.errors: ordered diagnostics
    sem_todo,       \* analyzer's pending visits (the Python call stack of visit())
    cg,             \* CodeGen: module, builder cursor, vars table, raised exception
    gen_todo,       \* generator's pending visits and continuations
    rt              \* the running generated program: block, position, memory, registers, output

vars == <<lexer, drv, ast, pc, scopes, errors, sem_todo, cg, gen_todo, rt>>

(***************************************************************************)
(* AST (mg_ast.py).  A node is a record whose field k is the class name.   *)
(***************************************************************************)
Program(func_main) == [k |-> "Program", func_main |-> func_main]
Function(name, body) == [k |-> "Function", name |-> name, body |-> body]
Block(statements) == [k |-> "Block", statements |-> statements]
VarDecl(name, type_name, expr) ==
    [k |-> "VarDecl", name |-> name, type_name |-> type_name, expr |-> expr]
Assign(name, expr) == [k |-> "Assign", name |-> name, expr |-> expr]
BinOp(left, op, right) == [k |-> "BinOp", left |-> left, op |-> op, right |-> right]
UnaryOp(op, expr) == [k |-> "UnaryOp", op |-> op, expr |-> expr]
\* else_body is a sequence of at most one Block: <<>> is Python's None
IfStmt(cond, then_body, else_body) ==
    [k |-> "IfStmt", cond |-> cond, then_body |-> then_body, else_body |-> else_body]
ForStmt(cond, body) == [k |-> "ForStmt", cond |-> cond, body |-> body]
Identifier(name) == [k |-> "Identifier", name |-> name]
\* value is kept as num (an int, or a bool as 1 / 0) or str (a string)
Literal(value, type_tag) ==
    [k |-> "Literal", type_tag |-> type_tag,
     num |-> IF type_tag = "int" THEN value
             ELSE IF type_tag = "bool" THEN (IF value THEN 1 ELSE 0) ELSE 0,
     str |-> IF type_tag = "string" THEN value ELSE ""]
Call(func_name, args) == [k |-> "Call", func_name |-> func_name, args |-> args]

IsExpr(node) == node.k \in {"BinOp", "UnaryOp", "Identifier", "Literal", "Call"}

(***************************************************************************)
(* SymbolTable (semant.py).  None is the string "None".                    *)
(***************************************************************************)
None == "None"
EmptyScope == [n \in {} |-> None]

\* SymbolTable.__init__: one (global) scope
NewSymbolTable == <<EmptyScope>>

\* SymbolTable.declare: False when the name is in the innermost scope
declare_ok(sc, name) == name \notin DOMAIN sc[Len(sc)]

declare(sc, name, type_name) ==
    IF declare_ok(sc, name)
    THEN [sc EXCEPT ![Len(sc)] =
            [n \in (DOMAIN sc[Len(sc)]) \cup {name} |->
                IF n = name THEN type_name ELSE sc[Len(sc)][n]]]
    ELSE sc

\* SymbolTable.lookup: innermost scope first
RECURSIVE lookup_from(_, _, _)
lookup_from(sc, i, name) ==
    IF i = 0 THEN None
    ELSE IF name \in DOMAIN sc[i] THEN sc[i][name]
    ELSE lookup_from(sc, i - 1, name)

\* a lookup that walks the scopes outermost first
RECURSIVE lookup_up(_, _, _)
lookup_up(sc, i, name) ==
    IF i > Len(sc) THEN None
    ELSE IF name \in DOMAIN sc[i] THEN sc[i][name]
    ELSE lookup_up(sc, i + 1, name)

lookup_outermost(sc, name) == lookup_up(sc, 1, name)

lookup(sc, name) == lookup_from(sc, Len(sc), name)

enter_scope(sc) == Append(sc, EmptyScope)

\* an exit_scope that pops nothing
exit_scope_kept(sc) == sc

\* SymbolTable.exit_scope raises when only the global scope is left
exit_scope_raises(sc) == Len(sc) <= 1
exit_scope(sc) == IF Len(sc) > 1 THEN SubSeq(sc, 1, Len(sc) - 1) ELSE sc

(***************************************************************************)
(* SemanticAnalyzer (semant.py): expressions.                              *)
(***************************************************************************)
Err(msg, a, b) == [msg |-> msg, a |-> a, b |-> b]

ArithOps == {"+", "-", "*", "/", "%"}
CmpOps == {"<", "<=", ">", ">="}
LogicOps == {"&&", "||"}

\* SemanticAnalyzer.infer_type
infer_type(sc, node) ==
    CASE node.k = "Literal" -> node.type_tag
      [] node.k = "Identifier" -> lookup(sc, node.name)
      [] node.k = "BinOp" ->
            IF node.op \in ArithOps THEN "int"
            ELSE IF node.op \in CmpOps \cup {"=="} THEN "bool"
            ELSE IF node.op \in LogicOps THEN "bool"
            ELSE None
      [] node.k = "UnaryOp" ->
            IF node.op = "!" THEN "bool"
            ELSE IF node.op = "-" THEN "int"
            ELSE None
      [] OTHER -> None

\* visit_BinOp reporting an operator only when both operands have a wrong type
BinOp_check_both(op, left_type, right_type) ==
    IF op \in ArithOps \cup CmpOps
    THEN IF left_type # "int" /\ right_type # "int"
         THEN <<Err("arith_expects_int", op, "")>> ELSE <<>>
    ELSE IF op \in LogicOps
    THEN IF left_type # "bool" /\ right_type # "bool"
         THEN <<Err("logic_expects_bool", op, "")>> ELSE <<>>
    ELSE <<>>

\* the type rule of visit_BinOp after both operands were visited
BinOp_check(op, left_type, right_type) ==
    IF op \in ArithOps
    THEN IF left_type # "int" \/ right_type # "int"
         THEN <<Err("arith_expects_int", op, "")>> ELSE <<>>
    ELSE IF op \in CmpOps \cup {"=="}
    THEN IF op = "=="
         THEN <<>>
         ELSE IF left_type # "int" \/ right_type # "int"
              THEN <<Err("cmp_requires_int", op, "")>> ELSE <<>>
    ELSE IF op = "=="
    THEN IF left_type # None /\ right_type # None /\ left_type # right_type
         THEN <<Err("eq_incompatible", left_type, right_type)>> ELSE <<>>
    ELSE IF op \in LogicOps
    THEN IF left_type # "bool" \/ right_type # "bool"
         THEN <<Err("logic_expects_bool", op, "")>> ELSE <<>>
    ELSE <<>>

\* the type rule of visit_UnaryOp after the operand was visited
UnaryOp_check(op, expr_type) ==
    IF op = "!"
    THEN IF expr_type # "bool" THEN <<Err("not_expects_bool", expr_type, "")>> ELSE <<>>
    ELSE IF op = "-"
    THEN IF expr_type # "int" THEN <<Err("neg_expects_int", expr_type, "")>> ELSE <<>>
    ELSE <<>>

\* SemanticAnalyzer.visit on an expression: the diagnostics it appends, in order
RECURSIVE sem_visit_expr(_, _)
sem_visit_expr(sc, node) ==
    CASE node.k = "Literal" -> <<>>
      [] node.k = "Identifier" ->
            IF lookup(sc, node.name) = None
            THEN <<Err("undeclared", node.name, "")>> ELSE <<>>
      [] node.k = "BinOp" ->
            sem_visit_expr(sc, node.left) \o sem_visit_expr(sc, node.right)
            \o BinOp_check(node.op, infer_type(sc, node.left), infer_type(sc, node.right))
      [] node.k = "UnaryOp" ->
            sem_visit_expr(sc, node.expr)
            \o UnaryOp_check(node.op, infer_type(sc, node.expr))
      [] node.k = "Call" -> sem_visit_expr(sc, node.args[1])

(***************************************************************************)
(* SemanticAnalyzer (semant.py): statements.  Each returns the analyzer's  *)
(* state [scopes, errors] after the handler.                               *)
(***************************************************************************)
Sem(sc, errs) == [scopes |-> sc, errors |-> errs]

\* visit_VarDecl registering the name only when the initializer has the
\* declared type
sem_visit_VarDecl_strict(sc, errs, node) ==
    IF node.type_name \notin {"int", "bool"}
    THEN Sem(sc, Append(errs, Err("unknown_type", node.type_name, "")))
    ELSE IF ~declare_ok(sc, node.name)
    THEN Sem(sc, Append(errs, Err("redeclared", node.name, "")))
    ELSE LET expr_type == infer_type(sc, node.expr)
         IN  IF expr_type # None /\ expr_type # node.type_name
             THEN Sem(sc, errs \o sem_visit_expr(sc, node.expr)
                          \o <<Err("decl_type_mismatch", node.type_name, expr_type)>>)
             ELSE Sem(declare(sc, node.name, node.type_name),
                      errs \o sem_visit_expr(sc, node.expr))

sem_visit_VarDecl(sc, errs, node) ==
    IF node.type_name \notin {"int", "bool"}
    THEN Sem(sc, Append(errs, Err("unknown_type", node.type_name, "")))
    ELSE IF ~declare_ok(sc, node.name)
    THEN Sem(sc, Append(errs, Err("redeclared", node.name, "")))
    ELSE LET sc2 == declare(sc, node.name, node.type_name)
             expr_type == infer_type(sc2, node.expr)
         IN  Sem(sc2,
                 errs \o sem_visit_expr(sc2, node.expr)
                 \o (IF expr_type # None /\ expr_type # node.type_name
                     THEN <<Err("decl_type_mismatch", node.type_name, expr_type)>>
                     ELSE <<>>))

\* visit_Assign without the return after the undeclared error
sem_visit_Assign_through(sc, errs, node) ==
    LET var_type == lookup(sc, node.name)
        expr_type == infer_type(sc, node.expr)
    IN  Sem(sc,
            errs
            \o (IF var_type = None THEN <<Err("undeclared", node.name, "")>> ELSE <<>>)
            \o sem_visit_expr(sc, node.expr)
            \o (IF expr_type # None /\ expr_type # var_type
                THEN <<Err("assign_type_mismatch", var_type, expr_type)>>
                ELSE <<>>))

sem_visit_Assign(sc, errs, node) ==
    LET var_type == lookup(sc, node.name)
        expr_type == infer_type(sc, node.expr)
    IN  IF var_type = None
        THEN Sem(sc, Append(errs, Err("undeclared", node.name, "")))
        ELSE Sem(sc,
                 errs \o sem_visit_expr(sc, node.expr)
                 \o (IF expr_type # None /\ expr_type # var_type
                     THEN <<Err("assign_type_mismatch", var_type, expr_type)>>
                     ELSE <<>>))

\* the condition part of visit_IfStmt / visit_ForStmt
sem_visit_cond(sc, errs, cond, what) ==
    LET cond_type == infer_type(sc, cond)
    IN  Sem(sc,
            errs \o sem_visit_expr(sc, cond)
            \o (IF cond_type # "bool" THEN <<Err(what, cond_type, "")>> ELSE <<>>))

(***************************************************************************)
(* The analyzer as a machine: sem_todo is the stack of pending visit()     *)
(* calls; the head is the call being made.                                 *)
(***************************************************************************)
Visit(node, path) == [t |-> "visit", node |-> node, path |-> path]
ExitScopeTask == [t |-> "exit_scope"]

\* a visit_Block that visits the first statement only
StmtVisits_first(statements, path) ==
    [i \in 1..(IF statements = <<>> THEN 0 ELSE 1) |-> Visit(statements[i], Append(path, i))]

\* the visits of a Block's statements, in order, each with its position
StmtVisits(statements, path) ==
    [i \in 1..Len(statements) |-> Visit(statements[i], Append(path, i))]

SemHead == sem_todo[1]
SemAt(kinds) ==
    /\ pc = "analyze"
    /\ sem_todo # <<>>
    /\ SemHead.t = "visit"
    /\ SemHead.node.k \in kinds

\* visit_Program, visit_Function
SemVisitProgram ==
    /\ SemAt({"Program"})
    /\ LET f == SemHead.node.func_main
       IN  IF f.name = "main"
           THEN /\ sem_todo' = <<Visit(f.body, <<>>)>> \o Tail(sem_todo)
                /\ errors' = errors
           ELSE /\ sem_todo' = Tail(sem_todo)
                /\ errors' = Append(errors, Err("unsupported_function", f.name, ""))
    /\ UNCHANGED <<lexer, drv, ast, pc, scopes, cg, gen_todo, rt>>

\* visit_Block: enter_scope, then the statements, then exit_scope
SemVisitBlock ==
    /\ SemAt({"Block"})
    /\ scopes' = enter_scope(scopes)
    /\ sem_todo' = StmtVisits(SemHead.node.statements, SemHead.path)
                   \o <<ExitScopeTask>> \o Tail(sem_todo)
    /\ UNCHANGED <<lexer, drv, ast, pc, errors, cg, gen_todo, rt>>

\* the exit_scope() that ends visit_Block; its exception ends parse_file
SemExitScope ==
    /\ pc = "analyze"
    /\ sem_todo # <<>>
    /\ SemHead.t = "exit_scope"
    /\ IF exit_scope_raises(scopes)
       THEN /\ pc' = "failed"
            /\ UNCHANGED <<scopes, sem_todo>>
       ELSE /\ scopes' = exit_scope(scopes)
            /\ sem_todo' = Tail(sem_todo)
            /\ pc' = pc
    /\ UNCHANGED <<lexer, drv, ast, errors, cg, gen_todo, rt>>

SemVisitVarDecl ==
    /\ SemAt({"VarDecl"})
    /\ LET r == sem_visit_VarDecl(scopes, errors, SemHead.node)
       IN  scopes' = r.scopes /\ errors' = r.errors
    /\ sem_todo' = Tail(sem_todo)
    /\ UNCHANGED <<lexer, drv, ast, pc, cg, gen_todo, rt>>

SemVisitAssign ==
    /\ SemAt({"Assign"})
    /\ LET r == sem_visit_Assign(scopes, errors, SemHead.node)
       IN  scopes' = r.scopes /\ errors' = r.errors
    /\ sem_todo' = Tail(sem_todo)
    /\ UNCHANGED <<lexer, drv, ast, pc, cg, gen_todo, rt>>

SemVisitIfStmt ==
    /\ SemAt({"IfStmt"})
    /\ LET n == SemHead.node
           r == sem_visit_cond(scopes, errors, n.cond, "if_cond_not_bool")
       IN  /\ errors' = r.errors
           /\ sem_todo' = <<Visit(n.then_body, Append(SemHead.path, 2))>>
                          \o [i \in 1..Len(n.else_body) |->
                                Visit(n.else_body[i], Append(SemHead.path, 3))]
                          \o Tail(sem_todo)
    /\ UNCHANGED <<lexer, drv, ast, pc, scopes, cg, gen_todo, rt>>

SemVisitForStmt ==
    /\ SemAt({"ForStmt"})
    /\ LET n == SemHead.node
           r == sem_visit_cond(scopes, errors, n.cond, "for_cond_not_bool")
       IN  /\ errors' = r.errors
           /\ sem_todo' = <<Visit(n.body, Append(SemHead.path, 2))>> \o Tail(sem_todo)
    /\ UNCHANGED <<lexer, drv, ast, pc, scopes, cg, gen_todo, rt>>

\* an expression statement: visit_Call, visit_BinOp, visit_UnaryOp,
\* visit_Identifier or visit_Literal, whole
SemVisitExpr ==
    /\ SemAt({"BinOp", "UnaryOp", "Identifier", "Literal", "Call"})
    /\ errors' = errors \o sem_visit_expr(scopes, SemHead.node)
    /\ sem_todo' = Tail(sem_todo)
    /\ UNCHANGED <<lexer, drv, ast, pc, scopes, cg, gen_todo, rt>>

(***************************************************************************)
(* CodeGen (codegen.py) over llvmlite's IRBuilder.  cg is                  *)
(*   blocks  : main's basic blocks in append order, each with its          *)
(*             instructions and its terminator (<<>> while unterminated)   *)
(*   cur     : builder.block, an index into blocks                         *)
(*   vars    : self.vars, name -> the alloca that holds it                 *)
(*   nval    : instructions created so far (names the next SSA value)      *)
(*   globals : module.globals in creation order                            *)
(*   raised  : the exception that left compile(), "none" while none has    *)
(* Every instruction keeps the position (path) of the AST node whose       *)
(* visit emitted it.                                                       *)
(***************************************************************************)
INT_TYPE == "i32"
BOOL_TYPE == "i1"
STRING_TYPE == "i8*"
I64 == "i64"

TYPE_MAP(type_name) == IF type_name = "int" THEN INT_TYPE ELSE BOOL_TYPE

PointerType(ty) ==
    CASE ty = "i32" -> "i32*"
      [] ty = "i1" -> "i1*"
      [] OTHER -> "ptr"

Pointee(pty) ==
    CASE pty = "i32*" -> "i32"
      [] pty = "i1*" -> "i1"
      [] pty = "i8*" -> "i8"
      [] OTHER -> "arr"

\* an llvmlite value: a constant, an instruction's result, a global; Python's None
Val(v, ty, n) == [v |-> v, ty |-> ty, n |-> n]
Constant(ty, n) == Val("const", ty, n)
NoneVal == Val("None", None, 0)

\* what a visit returns: the generator after it, and the value returned
R(c, val) == [cg |-> c, val |-> val]

Raised(c) == c.raised # "none"
Raise(c, exc) == IF Raised(c) THEN c ELSE [c EXCEPT !.raised = exc]

NewBlock(name) == [name |-> name, instrs |-> <<>>, term |-> <<>>]

\* CodeGen.__init__: declare_printf, declare_main
NewCodeGen ==
    [blocks |-> <<NewBlock("entry")>>,
     cur |-> 1,
     vars |-> [n \in {} |-> NoneVal],
     nval |-> 0,
     globals |-> <<[kind |-> "printf", n |-> 0, data |-> ""],
                   [kind |-> "main", n |-> 0, data |-> ""]>>,
     raised |-> "none"]

\* function.append_basic_block: the new block's index
NextBlock(c) == Len(c.blocks) + 1
append_basic_block(c, name) ==
    IF Raised(c) THEN c ELSE [c EXCEPT !.blocks = Append(@, NewBlock(name))]

position_at_end(c, b) == IF Raised(c) THEN c ELSE [c EXCEPT !.cur = b]

is_terminated(c, b) == c.blocks[b].term # <<>>

\* IRBuilder._insert: the instruction goes to the end of builder.block
Emit(c, op, ty, args, aux, blks, path) ==
    IF Raised(c) THEN R(c, NoneVal)
    ELSE LET id == c.nval + 1
             ins == [id |-> id, op |-> op, ty |-> ty, args |-> args,
                     aux |-> aux, blks |-> blks, path |-> path]
         IN  R([c EXCEPT !.blocks[c.cur].instrs = Append(@, ins), !.nval = id],
               Val("reg", ty, id))

\* IRBuilder._set_terminator asserts that the block is not terminated yet
set_terminator(c, op, args, to, aux, path) ==
    IF Raised(c) THEN c
    ELSE IF is_terminated(c, c.cur) THEN Raise(c, "AssertionError")
    ELSE [c EXCEPT !.blocks[c.cur].term =
                <<[op |-> op, args |-> args, to |-> to, aux |-> aux, path |-> path]>>]

branch(c, target, path) == set_terminator(c, "br", <<>>, <<target>>, "", path)
cbranch(c, cond, truebr, falsebr, aux, path) ==
    set_terminator(c, "cbr", <<cond>>, <<truebr, falsebr>>, aux, path)
ret(c, val, path) == set_terminator(c, "ret", <<val>>, <<>>, "", path)

\* IRBuilder.add/sub/mul/sdiv/srem (_binop): operands of one type, else ValueError
binop(c, opname, lhs, rhs, path) ==
    IF Raised(c) THEN R(c, NoneVal)
    ELSE IF lhs.v = "None" \/ rhs.v = "None" THEN R(Raise(c, "AttributeError"), NoneVal)
    ELSE IF lhs.ty # rhs.ty THEN R(Raise(c, "ValueError"), NoneVal)
    ELSE Emit(c, opname, lhs.ty, <<lhs, rhs>>, "", <<>>, path)

\* IRBuilder.icmp_signed: reads lhs.type only; the result is an i1
icmp_signed(c, cmpop, lhs, rhs, path) ==
    IF Raised(c) THEN R(c, NoneVal)
    ELSE IF lhs.v = "None" THEN R(Raise(c, "AttributeError"), NoneVal)
    ELSE Emit(c, "icmp", BOOL_TYPE, <<lhs, rhs>>, cmpop, <<>>, path)

\* IRBuilder.alloca: at the builder's position
alloca(c, ty, path) == Emit(c, "alloca", PointerType(ty), <<>>, "", <<>>, path)

\* IRBuilder.load
load(c, ptr, path) ==
    IF Raised(c) THEN R(c, NoneVal)
    ELSE Emit(c, "load", Pointee(ptr.ty), <<ptr>>, "", <<>>, path)

\* IRBuilder.store: TypeError unless the pointee type is the value's type
store(c, value, ptr, path) ==
    IF Raised(c) THEN c
    ELSE IF value.v = "None" THEN Raise(c, "AttributeError")
    ELSE IF Pointee(ptr.ty) # value.ty THEN Raise(c, "TypeError")
    ELSE Emit(c, "store", "void", <<value, ptr>>, "", <<>>, path).cg

\* IRBuilder.zext (_castop): the value itself when it has the type already
zext(c, val, ty, path) ==
    IF Raised(c) THEN R(c, NoneVal)
    ELSE IF val.v = "None" THEN R(Raise(c, "AttributeError"), NoneVal)
    ELSE IF val.ty = ty THEN R(c, val)
    ELSE Emit(c, "zext", ty, <<val>>, "", <<>>, path)

\* a GlobalVariable named by a count of the globals of its own kind
global_string_per_kind(c, kind, data, path) ==
    IF Raised(c) THEN R(c, NoneVal)
    ELSE LET n == Cardinality({i \in 1..Len(c.globals) : c.globals[i].kind = kind})
         IN  IF \E i \in 1..Len(c.globals) : c.globals[i].kind = kind /\ c.globals[i].n = n
             THEN R(Raise(c, "DuplicatedNameError"), NoneVal)
             ELSE Emit([c EXCEPT !.globals = Append(@, [kind |-> kind, n |-> n, data |-> data])],
                       "bitcast", STRING_TYPE, <<Val("global", "arr*", n)>>, "", <<>>, path)

\* ir.GlobalVariable named <kind>.<len(module.globals)>, initialized with the
\* bytes of data and a terminating NUL, then builder.bitcast to i8*; a name
\* already in the module raises
global_string(c, kind, data, path) ==
    IF Raised(c) THEN R(c, NoneVal)
    ELSE LET n == Len(c.globals)
         IN  IF \E i \in 1..Len(c.globals) : c.globals[i].kind = kind /\ c.globals[i].n = n
             THEN R(Raise(c, "DuplicatedNameError"), NoneVal)
             ELSE Emit([c EXCEPT !.globals = Append(@, [kind |-> kind, n |-> n, data |-> data])],
                       "bitcast", STRING_TYPE, <<Val("global", "arr*", n)>>, "", <<>>, path)

\* IRBuilder.call(self.printf, args)
call_printf(c, args, path) == Emit(c, "call", INT_TYPE, args, "printf", <<>>, path)

\* "if v.type == INT_TYPE: v = icmp_signed('!=', v, 0)" of visit_BinOp,
\* visit_IfStmt and visit_ForStmt
int_to_bool(c, val, path) ==
    IF Raised(c) THEN R(c, NoneVal)
    ELSE IF val.v = "None" THEN R(Raise(c, "AttributeError"), NoneVal)
    ELSE IF val.ty = INT_TYPE
    THEN icmp_signed(c, "!=", val, Constant(INT_TYPE, 0), path)
    ELSE R(c, val)

(***************************************************************************)
(* CodeGen (codegen.py): expressions.                                      *)
(***************************************************************************)
Left(path) == Append(path, 1)
Right(path) == Append(path, 2)

gen_visit_Literal(c, node, path) ==
    IF Raised(c) THEN R(c, NoneVal)
    ELSE IF node.type_tag = "int" THEN R(c, Constant(INT_TYPE, node.num))
    ELSE IF node.type_tag = "bool" THEN R(c, Constant(BOOL_TYPE, IF node.num # 0 THEN 1 ELSE 0))
    ELSE IF node.type_tag = "string" THEN global_string(c, "str", node.str, path)
    ELSE R(Raise(c, "RuntimeError"), NoneVal)

gen_visit_Identifier(c, node, path) ==
    IF Raised(c) THEN R(c, NoneVal)
    ELSE IF node.name \notin DOMAIN c.vars THEN R(Raise(c, "RuntimeError"), NoneVal)
    ELSE load(c, c.vars[node.name], path)

RECURSIVE gen_visit_expr(_, _, _)
RECURSIVE gen_visit_BinOp(_, _, _)
RECURSIVE gen_short_circuit(_, _, _)
RECURSIVE gen_visit_UnaryOp(_, _, _)
RECURSIVE gen_visit_Call(_, _, _)

\* visit_BinOp, '&&' and '||', the end: the right value as a bool, branch to
\* merge; the end block branches to merge; the phi in merge
sc_merge(rb, is_and, end_block, path) ==
    Emit(position_at_end(
             branch(position_at_end(branch(rb.cg, end_block + 2, path), end_block),
                    end_block + 2, path),
             end_block + 2),
         "phi", BOOL_TYPE,
         IF is_and THEN <<rb.val, Constant(BOOL_TYPE, 0)>> ELSE <<Constant(BOOL_TYPE, 1), rb.val>>,
         "",
         IF is_and THEN <<end_block + 1, end_block>> ELSE <<end_block, end_block + 1>>,
         path)

sc_right(rv, is_and, end_block, path) ==
    sc_merge(int_to_bool(rv.cg, rv.val, path), is_and, end_block, path)

\* visit_BinOp, '&&' and '||', the middle: blocks end, right, merge in this
\* order; the conditional branch on left; the right operand in the right block
sc_blocks(lb, node, path) ==
    sc_right(
        gen_visit_expr(
            position_at_end(
                cbranch(append_basic_block(append_basic_block(append_basic_block(lb.cg,
                            IF node.op = "&&" THEN "and.end" ELSE "or.end"),
                            IF node.op = "&&" THEN "and.right" ELSE "or.right"),
                            IF node.op = "&&" THEN "and.merge" ELSE "or.merge"),
                        lb.val,
                        IF node.op = "&&" THEN NextBlock(lb.cg) + 1 ELSE NextBlock(lb.cg),
                        IF node.op = "&&" THEN NextBlock(lb.cg) ELSE NextBlock(lb.cg) + 1,
                        IF node.op = "&&" THEN "and" ELSE "or",
                        path),
                NextBlock(lb.cg) + 1),
            node.right, Right(path)),
        node.op = "&&", NextBlock(lb.cg), path)

sc_left(lv, node, path) == sc_blocks(int_to_bool(lv.cg, lv.val, path), node, path)

\* visit_BinOp, op == '&&' / op == '||': the left operand is visited again
gen_short_circuit(c, node, path) ==
    sc_left(gen_visit_expr(c, node.left, Left(path)), node, path)

\* visit_BinOp after both operands were visited
binop_apply(r, left, node, path) ==
    IF Raised(r.cg) THEN R(r.cg, NoneVal)
    ELSE CASE node.op = "+" -> binop(r.cg, "add", left, r.val, path)
           [] node.op = "-" -> binop(r.cg, "sub", left, r.val, path)
           [] node.op = "*" -> binop(r.cg, "mul", left, r.val, path)
           [] node.op = "/" -> binop(r.cg, "sdiv", left, r.val, path)
           [] node.op = "%" -> binop(r.cg, "srem", left, r.val, path)
           [] node.op = "==" ->
                IF left.v = "None" THEN R(Raise(r.cg, "AttributeError"), NoneVal)
                ELSE IF left.ty = INT_TYPE THEN icmp_signed(r.cg, "==", left, r.val, path)
                ELSE IF left.ty = BOOL_TYPE THEN icmp_signed(r.cg, "==", left, r.val, path)
                ELSE R(r.cg, NoneVal)
           [] node.op \in CmpOps -> icmp_signed(r.cg, node.op, left, r.val, path)
           [] node.op \in LogicOps -> gen_short_circuit(r.cg, node, path)
           [] OTHER -> R(r.cg, NoneVal)

binop_right(l, node, path) ==
    binop_apply(gen_visit_expr(l.cg, node.right, Right(path)), l.val, node, path)

\* visit_BinOp: both operands are visited first, whatever the operator
gen_visit_BinOp(c, node, path) ==
    binop_right(gen_visit_expr(c, node.left, Left(path)), node, path)

unary_apply(e, node, path) ==
    IF Raised(e.cg) THEN R(e.cg, NoneVal)
    ELSE IF node.op = "!"
    THEN icmp_signed(e.cg, "==", e.val, Constant(BOOL_TYPE, 0), path)
    ELSE IF node.op = "-"
    THEN binop(e.cg, "sub", Constant(INT_TYPE, 0), e.val, path)
    ELSE R(Raise(e.cg, "RuntimeError"), NoneVal)

gen_visit_UnaryOp(c, node, path) ==
    unary_apply(gen_visit_expr(c, node.expr, Left(path)), node, path)

NewLine(func_name) == IF func_name = "println" THEN "\n" ELSE ""

\* printf(fmt)
call_fmt(fmt, path) == R(call_printf(fmt.cg, <<fmt.val>>, path).cg, NoneVal)

\* printf(fmt, zext(value))
call_fmt_value(int64_val, fmt_ptr, path) ==
    R(call_printf(int64_val.cg, <<fmt_ptr, int64_val.val>>, path).cg, NoneVal)

call_zext(int_val, fmt_ptr, path) ==
    call_fmt_value(zext(int_val.cg, int_val.val, I64, path), fmt_ptr, path)

call_revisit(fmt, arg, path) ==
    call_zext(gen_visit_expr(fmt.cg, arg, Left(path)), fmt.val, path)

\* visit_Call after the first visit of the argument: the format by its class
call_format(c, node, arg, path) ==
    IF Raised(c) THEN R(c, NoneVal)
    ELSE IF arg.k = "Literal" /\ arg.type_tag = "string"
    THEN call_fmt(global_string(c, "fmt", arg.str \o NewLine(node.func_name), path), path)
    ELSE IF arg.k \in {"Identifier", "BinOp", "UnaryOp"}
    THEN call_revisit(global_string(c, "fmt", "%d" \o NewLine(node.func_name), path), arg, path)
    ELSE R(Raise(c, "RuntimeError"), NoneVal)

\* visit_Call: the argument is visited, then the format global is made by the
\* argument's class; an Identifier, BinOp or UnaryOp argument is visited again
gen_visit_Call(c, node, path) ==
    IF Raised(c) THEN R(c, NoneVal)
    ELSE IF node.func_name \in {"print", "println"}
    THEN call_format(gen_visit_expr(c, node.args[1], Left(path)).cg, node, node.args[1], path)
    ELSE R(Raise(c, "RuntimeError"), NoneVal)

\* CodeGen.visit on an expression node
gen_visit_expr(c, node, path) ==
    IF Raised(c) THEN R(c, NoneVal)
    ELSE CASE node.k = "Literal" -> gen_visit_Literal(c, node, path)
           [] node.k = "Identifier" -> gen_visit_Identifier(c, node, path)
           [] node.k = "BinOp" -> gen_visit_BinOp(c, node, path)
           [] node.k = "UnaryOp" -> gen_visit_UnaryOp(c, node, path)
           [] node.k = "Call" -> gen_visit_Call(c, node, path)
           [] OTHER -> R(Raise(c, "NotImplementedError"), NoneVal)

(***************************************************************************)
(* CodeGen (codegen.py): statements.                                       *)
(***************************************************************************)
store_result(value, ptr, path) == store(value.cg, value.val, ptr, path)

\* self.vars[name] = alloca
bind_var(c, name, slot) ==
    IF Raised(c) THEN c
    ELSE [c EXCEPT !.vars = [n \in (DOMAIN c.vars) \cup {name} |->
                                IF n = name THEN slot ELSE c.vars[n]]]

vardecl_init(a, node, path) ==
    store_result(gen_visit_expr(bind_var(a.cg, node.name, a.val), node.expr, Left(path)),
                 a.val, path)

gen_visit_VarDecl(c, node, path) ==
    IF Raised(c) THEN c
    ELSE IF node.type_name \notin {"int", "bool"} THEN Raise(c, "KeyError")
    ELSE vardecl_init(alloca(c, TYPE_MAP(node.type_name), path), node, path)

gen_visit_Assign(c, node, path) ==
    IF Raised(c) THEN c
    ELSE IF node.name \notin DOMAIN c.vars THEN Raise(c, "RuntimeError")
    ELSE store_result(gen_visit_expr(c, node.expr, Left(path)), c.vars[node.name], path)

\* visit_IfStmt: an int condition is compared with zero, any other non-bool raises
if_cond(cond, path) ==
    IF Raised(cond.cg) THEN cond
    ELSE IF cond.val.v = "None" THEN R(Raise(cond.cg, "AttributeError"), NoneVal)
    ELSE IF cond.val.ty = INT_TYPE
    THEN icmp_signed(cond.cg, "!=", cond.val, Constant(INT_TYPE, 0), path)
    ELSE IF cond.val.ty # BOOL_TYPE THEN R(Raise(cond.cg, "RuntimeError"), NoneVal)
    ELSE cond

\* visit_IfStmt: blocks then, merge and (with an else) else; the branch
if_blocks(cb, has_else, then_block, path) ==
    [cg |-> position_at_end(
                cbranch(IF has_else
                        THEN append_basic_block(append_basic_block(append_basic_block(
                                 cb.cg, "if.then"), "if.merge"), "if.else")
                        ELSE append_basic_block(append_basic_block(cb.cg, "if.then"), "if.merge"),
                        cb.val, then_block,
                        IF has_else THEN then_block + 2 ELSE then_block + 1,
                        "if", path),
                then_block),
     merge_block |-> then_block + 1,
     else_block |-> IF has_else THEN then_block + 2 ELSE then_block + 1]

if_after_cond(cb, node, path) == if_blocks(cb, node.else_body # <<>>, NextBlock(cb.cg), path)

\* visit_IfStmt up to position_at_end(then_block)
gen_if_begin(c, node, path) ==
    if_after_cond(if_cond(gen_visit_expr(c, node.cond, Left(path)), path), node, path)

\* visit_IfStmt after visit(then_body) without the branch to merge: the then
\* block stays open
gen_if_then_end_open(c, merge_block, else_block, has_else, path) ==
    position_at_end(c, IF has_else THEN else_block ELSE merge_block)

\* visit_IfStmt after visit(then_body): branch to merge; the else block or the merge
gen_if_then_end(c, merge_block, else_block, has_else, path) ==
    position_at_end(branch(c, merge_block, path),
                    IF has_else THEN else_block ELSE merge_block)

\* visit_IfStmt after visit(else_body)
gen_if_else_end(c, merge_block, path) ==
    position_at_end(branch(c, merge_block, path), merge_block)

for_branch(cb, header, path) ==
    [cg |-> position_at_end(cbranch(cb.cg, cb.val, header + 1, header + 2, "for", path),
                            header + 1),
     header |-> header, after |-> header + 2]

for_cond(cond, header, path) == for_branch(int_to_bool(cond.cg, cond.val, path), header, path)

\* visit_ForStmt up to position_at_end(body)
gen_for_begin(c, node, path) ==
    for_cond(
        gen_visit_expr(
            position_at_end(
                branch(append_basic_block(append_basic_block(append_basic_block(
                           c, "for.header"), "for.body"), "for.after"),
                       NextBlock(c), path),
                NextBlock(c)),
            node.cond, Left(path)),
        NextBlock(c), path)

\* visit_ForStmt after visit(body) branching to for.after: a loop that never
\* goes back to its header
gen_for_body_end_exit(c, header, after, path) ==
    position_at_end(branch(c, after, path), after)

\* visit_ForStmt after visit(body)
gen_for_body_end(c, header, after, path) ==
    position_at_end(branch(c, header, path), after)

\* compile() after visit(node): the implicit return 0
gen_final_ret(c) ==
    IF Raised(c) \/ is_terminated(c, c.cur) THEN c
    ELSE ret(c, Constant(INT_TYPE, 0), <<>>)

(***************************************************************************)
(* The generator as a machine: gen_todo is the stack of pending visit()    *)
(* calls and of the rests of visit_IfStmt / visit_ForStmt.                 *)
(***************************************************************************)
GenHead == gen_todo[1]
GenAt(kinds) ==
    /\ pc = "generate"
    /\ ~Raised(cg)
    /\ gen_todo # <<>>
    /\ GenHead.t = "visit"
    /\ GenHead.node.k \in kinds
GenRest(t) ==
    /\ pc = "generate"
    /\ ~Raised(cg)
    /\ gen_todo # <<>>
    /\ GenHead.t = t

\* compile's isinstance check, visit_Program, visit_Function
GenVisitProgram ==
    /\ GenAt({"Program"})
    /\ LET f == GenHead.node.func_main
       IN  IF f.name = "main"
           THEN /\ gen_todo' = <<Visit(f.body, <<>>)>> \o Tail(gen_todo)
                /\ cg' = cg
           ELSE /\ gen_todo' = Tail(gen_todo)
                /\ cg' = Raise(cg, "RuntimeError")
    /\ UNCHANGED <<lexer, drv, ast, pc, scopes, errors, sem_todo, rt>>

GenVisitBlock ==
    /\ GenAt({"Block"})
    /\ gen_todo' = StmtVisits(GenHead.node.statements, GenHead.path) \o Tail(gen_todo)
    /\ UNCHANGED <<lexer, drv, ast, pc, scopes, errors, sem_todo, cg, rt>>

GenVisitVarDecl ==
    /\ GenAt({"VarDecl"})
    /\ cg' = gen_visit_VarDecl(cg, GenHead.node, GenHead.path)
    /\ gen_todo' = Tail(gen_todo)
    /\ UNCHANGED <<lexer, drv, ast, pc, scopes, errors, sem_todo, rt>>

GenVisitAssign ==
    /\ GenAt({"Assign"})
    /\ cg' = gen_visit_Assign(cg, GenHead.node, GenHead.path)
    /\ gen_todo' = Tail(gen_todo)
    /\ UNCHANGED <<lexer, drv, ast, pc, scopes, errors, sem_todo, rt>>

\* an expression statement: visit_Call, visit_BinOp, ..., whole
GenVisitExpr ==
    /\ GenAt({"BinOp", "UnaryOp", "Identifier", "Literal", "Call"})
    /\ cg' = gen_visit_expr(cg, GenHead.node, GenHead.path).cg
    /\ gen_todo' = Tail(gen_todo)
    /\ UNCHANGED <<lexer, drv, ast, pc, scopes, errors, sem_todo, rt>>

GenVisitIfStmt ==
    /\ GenAt({"IfStmt"})
    /\ LET n == GenHead.node
           b == gen_if_begin(cg, n, GenHead.path)
       IN  /\ cg' = b.cg
           /\ gen_todo' = <<Visit(n.then_body, Append(GenHead.path, 2)),
                            [t |-> "if_then_end", merge_block |-> b.merge_block,
                             else_block |-> b.else_block, else_body |-> n.else_body,
                             path |-> GenHead.path]>>
                          \o Tail(gen_todo)
    /\ UNCHANGED <<lexer, drv, ast, pc, scopes, errors, sem_todo, rt>>

GenIfThenEnd ==
    /\ GenRest("if_then_end")
    /\ LET h == GenHead
       IN  /\ cg' = gen_if_then_end(cg, h.merge_block, h.else_block, h.else_body # <<>>, h.path)
           /\ gen_todo' = (IF h.else_body # <<>>
                           THEN <<Visit(h.else_body[1], Append(h.path, 3)),
                                  [t |-> "if_else_end", merge_block |-> h.merge_block,
                                   path |-> h.path]>>
                           ELSE <<>>)
                          \o Tail(gen_todo)
    /\ UNCHANGED <<lexer, drv, ast, pc, scopes, errors, sem_todo, rt>>

GenIfElseEnd ==
    /\ GenRest("if_else_end")
    /\ cg' = gen_if_else_end(cg, GenHead.merge_block, GenHead.path)
    /\ gen_todo' = Tail(gen_todo)
    /\ UNCHANGED <<lexer, drv, ast, pc, scopes, errors, sem_todo, rt>>

GenVisitForStmt ==
    /\ GenAt({"ForStmt"})
    /\ LET n == GenHead.node
           b == gen_for_begin(cg, n, GenHead.path)
       IN  /\ cg' = b.cg
           /\ gen_todo' = <<Visit(n.body, Append(GenHead.path, 2)),
                            [t |-> "for_body_end", header |-> b.header,
                             after |-> b.after, path |-> GenHead.path]>>
                          \o Tail(gen_todo)
    /\ UNCHANGED <<lexer, drv, ast, pc, scopes, errors, sem_todo, rt>>

GenForBodyEnd ==
    /\ GenRest("for_body_end")
    /\ cg' = gen_for_body_end(cg, GenHead.header, GenHead.after, GenHead.path)
    /\ gen_todo' = Tail(gen_todo)
    /\ UNCHANGED <<lexer, drv, ast, pc, scopes, errors, sem_todo, rt>>

\* an exception leaves compile(); parse_file reports it and returns None
GenRaise ==
    /\ pc = "generate"
    /\ Raised(cg)
    /\ pc' = "failed"
    /\ UNCHANGED <<lexer, drv, ast, scopes, errors, sem_todo, cg, gen_todo, rt>>

\* compile() returns: the implicit "ret i32 0" when the last block is open
GenCompileReturn ==
    /\ pc = "generate"
    /\ ~Raised(cg)
    /\ gen_todo = <<>>
    /\ cg' = gen_final_ret(cg)
    /\ pc' = "emit"
    /\ UNCHANGED <<lexer, drv, ast, scopes, errors, sem_todo, gen_todo, rt>>

(***************************************************************************)
(* After compile(): parse_file prints the module (str(cg.module), which    *)
(* dereferences every operand) and hands the text to llc, whose verifier   *)
(* rejects ill-typed instructions, phis that do not list the block's       *)
(* predecessors and uses that their definition does not dominate.          *)
(***************************************************************************)
Blocks(c) == 1..Len(c.blocks)
Instrs(c, b) == c.blocks[b].instrs
Term(c, b) == c.blocks[b].term[1]
Successors(c, b) == IF is_terminated(c, b) THEN {Term(c, b).to[i] : i \in 1..Len(Term(c, b).to)} ELSE {}
Predecessors(c, b) == {p \in Blocks(c) : b \in Successors(c, p)}

Operands(c, b) ==
    UNION {{Instrs(c, b)[i].args[j] : j \in 1..Len(Instrs(c, b)[i].args)} : i \in 1..Len(Instrs(c, b))}
    \cup (IF is_terminated(c, b) THEN {Term(c, b).args[j] : j \in 1..Len(Term(c, b).args)} ELSE {})

\* str(module) raises on an operand that is None
module_prints(c) == \A b \in Blocks(c) : \A o \in Operands(c, b) : o.v # "None"

\* blocks reachable from b without entering the block avoid
RECURSIVE reach_avoiding(_, _, _, _)
reach_avoiding(c, frontier, seen, avoid) ==
    LET next == (UNION {Successors(c, b) : b \in frontier}) \ (seen \cup {avoid})
    IN  IF next = {} THEN seen ELSE reach_avoiding(c, next, seen \cup next, avoid)

dominates(c, d, b) == d = b \/ d = 1 \/ b \notin reach_avoiding(c, {1}, {1}, d)

def_block(c, id) == CHOOSE b \in Blocks(c) : \E i \in 1..Len(Instrs(c, b)) : Instrs(c, b)[i].id = id
def_index(c, id) == CHOOSE i \in 1..Len(Instrs(c, def_block(c, id))) : Instrs(c, def_block(c, id))[i].id = id

\* the definition of operand o reaches a use at position i of block b
use_dominated(c, o, b, i) ==
    \/ o.v # "reg"
    \/ IF def_block(c, o.n) = b THEN def_index(c, o.n) < i
       ELSE dominates(c, def_block(c, o.n), b)

instr_verifies(c, b, i) ==
    LET ins == Instrs(c, b)[i]
    IN  /\ \A j \in 1..Len(ins.args) :
              IF ins.op = "phi"
              THEN use_dominated(c, ins.args[j], ins.blks[j], Len(Instrs(c, ins.blks[j])) + 1)
              ELSE use_dominated(c, ins.args[j], b, i)
        /\ CASE ins.op = "icmp" -> ins.args[1].ty = ins.args[2].ty /\ ins.args[1].ty \in {INT_TYPE, BOOL_TYPE, STRING_TYPE}
             [] ins.op \in {"add", "sub", "mul", "sdiv", "srem"} -> ins.ty \in {INT_TYPE, BOOL_TYPE}
             [] ins.op = "zext" -> ins.args[1].ty \in {INT_TYPE, BOOL_TYPE}
             [] ins.op = "phi" ->
                    /\ \A j \in 1..Len(ins.args) : ins.args[j].ty = ins.ty
                    /\ {ins.blks[j] : j \in 1..Len(ins.blks)} = Predecessors(c, b)
                    /\ Len(ins.blks) = Cardinality(Predecessors(c, b))
             [] ins.op = "call" -> ins.args[1].ty = STRING_TYPE
             [] OTHER -> TRUE

term_verifies(c, b) ==
    /\ is_terminated(c, b)
    /\ \A j \in 1..Len(Term(c, b).args) :
           use_dominated(c, Term(c, b).args[j], b, Len(Instrs(c, b)) + 1)
    /\ Term(c, b).op = "cbr" => Term(c, b).args[1].ty = BOOL_TYPE

llc_accepts(c) ==
    \A b \in Blocks(c) :
        /\ term_verifies(c, b)
        /\ \A i \in 1..Len(Instrs(c, b)) : instr_verifies(c, b, i)

(***************************************************************************)
(* Execution of main: rt is the block and position of the next             *)
(* instruction, the block control came from, the SSA registers, the stack  *)
(* slots made by alloca, and what printf wrote.                            *)
(***************************************************************************)
INT_MAX == 2147483647

\* two's complement wrap of a result to the width of its type
Wrap(ty, n) ==
    IF ty = BOOL_TYPE THEN n % 2
    ELSE IF n > INT_MAX THEN ((n - INT_MAX) - INT_MAX) - 2
    ELSE IF n < (-INT_MAX) - 1 THEN ((n + INT_MAX) + INT_MAX) + 2
    ELSE n

\* the signed reading of a register of type ty (an i1 holding 1 is -1)
Signed(ty, n) == IF ty = BOOL_TYPE THEN -n ELSE n

Abs(n) == IF n < 0 THEN -n ELSE n
TruncDiv(a, b) == IF (a < 0) = (b < 0) THEN Abs(a) \div Abs(b) ELSE -(Abs(a) \div Abs(b))
TruncRem(a, b) == a - b * TruncDiv(a, b)

Digits == <<"0", "1", "2", "3", "4", "5", "6", "7", "8", "9">>
RECURSIVE DecNat(_)
DecNat(n) == IF n < 10 THEN Digits[n + 1] ELSE DecNat(n \div 10) \o Digits[(n % 10) + 1]
\* printf's %d
Dec(n) == IF n < 0 THEN "-" \o DecNat(-n) ELSE DecNat(n)

\* the values an undefined read or result may take
UndefValues == {0, 1}

NewRun == [block |-> 1, idx |-> 1, prev |-> 0,
           regs |-> [i \in {} |-> 0], mem |-> <<>>, out |-> ""]

Eval(r, o) == IF o.v = "reg" THEN r.regs[o.n] ELSE o.n

SetReg(r, id, n) ==
    [r EXCEPT !.regs = [i \in (DOMAIN r.regs) \cup {id} |-> IF i = id THEN n ELSE r.regs[i]],
              !.idx = @ + 1]

Compare(cmpop, a, b) ==
    CASE cmpop = "==" -> a = b
      [] cmpop = "!=" -> a # b
      [] cmpop = "<" -> a < b
      [] cmpop = "<=" -> a <= b
      [] cmpop = ">" -> a > b
      [] cmpop = ">=" -> a >= b

\* an instruction whose behaviour is undefined on these operands
is_undefined(r, ins) ==
    \/ ins.op \in {"sdiv", "srem"} /\ Eval(r, ins.args[2]) = 0
    \/ ins.op = "load" /\ ~r.mem[Eval(r, ins.args[1])].init

\* the state after instruction ins; u is the value an undefined result takes
exec_instr(c, r, ins, u) ==
    LET a == Eval(r, ins.args[1])
        b == Eval(r, ins.args[2])
        ty == ins.args[1].ty
    IN  CASE ins.op = "alloca" ->
                SetReg([r EXCEPT !.mem = Append(@, [init |-> FALSE, v |-> 0])],
                       ins.id, Len(r.mem) + 1)
          [] ins.op = "load" ->
                SetReg(r, ins.id, IF r.mem[a].init THEN r.mem[a].v ELSE u)
          [] ins.op = "store" ->
                [r EXCEPT !.mem[b] = [init |-> TRUE, v |-> a], !.idx = @ + 1]
          [] ins.op = "add" -> SetReg(r, ins.id, Wrap(ty, a + b))
          [] ins.op = "sub" -> SetReg(r, ins.id, Wrap(ty, a - b))
          [] ins.op = "mul" -> SetReg(r, ins.id, Wrap(ty, a * b))
          [] ins.op = "sdiv" ->
                SetReg(r, ins.id, IF b = 0 THEN u ELSE Wrap(ty, TruncDiv(a, b)))
          [] ins.op = "srem" ->
                SetReg(r, ins.id, IF b = 0 THEN u ELSE Wrap(ty, TruncRem(a, b)))
          [] ins.op = "icmp" ->
                SetReg(r, ins.id,
                       IF Compare(ins.aux, Signed(ty, a), Signed(ty, b)) THEN 1 ELSE 0)
          [] ins.op = "phi" ->
                SetReg(r, ins.id,
                       Eval(r, ins.args[CHOOSE j \in 1..Len(ins.blks) : ins.blks[j] = r.prev]))
          [] ins.op = "bitcast" -> SetReg(r, ins.id, a)
          \* an i64 register keeps its low 32 bits, all that printf's %d reads
          [] ins.op = "zext" -> SetReg(r, ins.id, a)
          [] ins.op = "call" ->
                LET fmt == c.globals[a + 1].data
                    text == IF Len(ins.args) = 1 THEN fmt
                            ELSE Dec(b) \o (IF fmt = "%d\n" THEN "\n" ELSE "")
                IN  SetReg([r EXCEPT !.out = @ \o text], ins.id, 0)

\* str(cg.module), then emit_object_file: llc
EmitModule ==
    /\ pc = "emit"
    /\ pc' = IF ~module_prints(cg) THEN "failed"
             ELSE IF ~llc_accepts(cg) THEN "no_object"
             ELSE "run"
    /\ rt' = NewRun
    /\ UNCHANGED <<lexer, drv, ast, scopes, errors, sem_todo, cg, gen_todo>>

RunAtInstr ==
    /\ pc = "run"
    /\ rt.idx <= Len(Instrs(cg, rt.block))

RunInstr ==
    /\ RunAtInstr
    /\ \E u \in UndefValues :
          rt' = exec_instr(cg, rt, Instrs(cg, rt.block)[rt.idx], u)
    /\ UNCHANGED <<lexer, drv, ast, pc, scopes, errors, sem_todo, cg, gen_todo>>

\* an undefined operation may also stop the program (a division trap)
RunTrap ==
    /\ RunAtInstr
    /\ is_undefined(rt, Instrs(cg, rt.block)[rt.idx])
    /\ pc' = "trapped"
    /\ UNCHANGED <<lexer, drv, ast, scopes, errors, sem_todo, cg, gen_todo, rt>>

RunBranch ==
    /\ pc = "run"
    /\ rt.idx > Len(Instrs(cg, rt.block))
    /\ Term(cg, rt.block).op \in {"br", "cbr"}
    /\ LET t == Term(cg, rt.block)
           target == IF t.op = "br" THEN t.to[1]
                     ELSE IF Eval(rt, t.args[1]) = 1 THEN t.to[1] ELSE t.to[2]
       IN  rt' = [rt EXCEPT !.block = target, !.idx = 1, !.prev = rt.block]
    /\ UNCHANGED <<lexer, drv, ast, pc, scopes, errors, sem_todo, cg, gen_todo>>

RunRet ==
    /\ pc = "run"
    /\ rt.idx > Len(Instrs(cg, rt.block))
    /\ Term(cg, rt.block).op = "ret"
    /\ pc' = "done"
    /\ UNCHANGED <<lexer, drv, ast, scopes, errors, sem_todo, cg, gen_todo, rt>>

(***************************************************************************)
(* The driver (main.py, parse_file): analysis, then generation only when   *)
(* analyze() returned True.                                                *)
(***************************************************************************)
SemAnalyzeReturn ==
    /\ pc = "analyze"
    /\ sem_todo = <<>>
    /\ IF errors = <<>>
       THEN /\ pc' = "generate"
            /\ cg' = NewCodeGen
            /\ gen_todo' = <<Visit(ast, <<>>)>>
       ELSE /\ pc' = "rejected"
            /\ UNCHANGED <<cg, gen_todo>>
    /\ UNCHANGED <<lexer, drv, ast, scopes, errors, sem_todo, rt>>

(***************************************************************************)
(* The ASTs analysed and compiled: what mg_parser.py builds for a bounded  *)
(* family of sources.                                                      *)
(***************************************************************************)
MaxDepth == 2
MaxInt == 1

IntLit(n) == Literal(n, "int")
BoolLit(b) == Literal(b, "bool")
StrLit(t) == Literal(t, "string")
Id(name) == Identifier(name)
CallPrintln(e) == Call("println", <<e>>)
CallPrint(e) == Call("print", <<e>>)

Atoms == {IntLit(n) : n \in 0..MaxInt} \cup {BoolLit(TRUE), StrLit("s"), Id("x"), Id("y")}
BinOps == {"+", "/", "<", "==", "&&", "||"}
Simple == {IntLit(1), BoolLit(TRUE), Id("x")}

\* expressions under test: atoms, one operator over operands, a nested logical
\* operator, a call
Exprs ==
    Atoms
    \cup {BinOp(l, op, r) : l \in Simple, op \in BinOps, r \in Simple \cup {Id("y")}}
    \cup {UnaryOp(op, e) : op \in {"!", "-"}, e \in Simple}
    \cup {BinOp(Id("y"), op, BinOp(Id("y"), op2, BinOp(Id("x"), "<", IntLit(1)))) :
               op \in LogicOps, op2 \in LogicOps}
    \cup {CallPrint(StrLit("s")), CallPrintln(Id("x"))}

\* the statements an expression can stand in
StmtsOf(e) ==
    {VarDecl("z", "int", e), VarDecl("z", "bool", e), Assign("x", e), Assign("y", e),
     Assign("w", e), e, CallPrintln(e), CallPrint(e),
     IfStmt(e, Block(<<>>), <<>>), ForStmt(e, Block(<<>>))}

Prefixes == {<<>>, <<VarDecl("x", "int", IntLit(0)), VarDecl("y", "bool", BoolLit(TRUE))>>}

\* every binary operator over operands of type int, bool, string and of no
\* known type (a call; x where it is not declared), as expression statements
AllBinOps == ArithOps \cup CmpOps \cup LogicOps \cup {"=="}
TypedOperands == {IntLit(1), BoolLit(TRUE), StrLit("s"), Id("x"), CallPrint(StrLit("s"))}
TypedPrograms ==
    {pre \o <<BinOp(l, op, r)>> : pre \in Prefixes, l \in TypedOperands,
                                  op \in AllBinOps, r \in TypedOperands}

ExprPrograms == {pre \o <<s>> : pre \in Prefixes, s \in UNION {StmtsOf(e) : e \in Exprs}}

\* nested control structure over x (int) and y (bool)
Leaves == {Assign("x", BinOp(Id("x"), "+", IntLit(1))), VarDecl("x", "bool", Id("y"))}
IfConds == {BinOp(Id("x"), "<", IntLit(1)), BinOp(Id("y"), "||", BinOp(Id("x"), "<", IntLit(1)))}
ForConds == {BinOp(BinOp(Id("x"), "<", IntLit(2)), "&&", Id("y"))}

RECURSIVE Nested(_)
Nested(d) ==
    IF d = 0 THEN Leaves
    ELSE LET inner == Nested(d - 1)
         IN  inner
             \cup {IfStmt(c, Block(<<s>>), <<>>) : c \in IfConds, s \in inner}
             \cup {IfStmt(c, Block(<<s>>), <<Block(<<l>>)>>) : c \in IfConds, s \in inner, l \in Leaves}
             \cup {ForStmt(c, Block(<<s>>)) : c \in ForConds, s \in inner}
             \cup {Block(<<s>>) : s \in inner}

NestedPrograms ==
    {<<VarDecl("x", "int", IntLit(0)), VarDecl("y", "bool", BoolLit(TRUE)), s, CallPrintln(Id("x"))>> :
        s \in Nested(MaxDepth)}

\* the round-trip program of the lexer's self-test (mg_lexer.py)
RoundTrip ==
    <<VarDecl("a", "int", IntLit(10)),
      VarDecl("b", "int", IntLit(1)),
      VarDecl("c", "int", IntLit(0)),
      ForStmt(BinOp(Id("b"), "<", Id("a")),
              Block(<<Assign("b", BinOp(Id("b"), "+", IntLit(1))),
                      IfStmt(BinOp(BinOp(Id("b"), "%", IntLit(2)), "==", IntLit(0)),
                             Block(<<Assign("c", BinOp(Id("c"), "+", Id("b")))>>),
                             <<>>)>>)),
      CallPrint(StrLit("Suma de pares: ")),
      CallPrintln(Id("c"))>>

\* if 1+1 { println(1) }
IfIntCond == <<IfStmt(BinOp(IntLit(1), "+", IntLit(1)), Block(<<CallPrintln(IntLit(1))>>), <<>>)>>

\* declarations and uses of x in nested scopes
ScopeLeaves ==
    {VarDecl("x", "int", IntLit(1)), VarDecl("x", "bool", BoolLit(TRUE)),
     Assign("x", IntLit(1)), Assign("x", BoolLit(TRUE))}

RECURSIVE Scoped(_)
Scoped(d) ==
    IF d = 0 THEN ScopeLeaves
    ELSE LET inner == Scoped(d - 1)
         IN  ScopeLeaves
             \cup {Block(<<a, s>>) : a \in ScopeLeaves, s \in inner}
             \cup {IfStmt(BoolLit(TRUE), Block(<<a, s>>), <<>>) : a \in ScopeLeaves, s \in inner}

ScopePrograms ==
    {<<a, s, u>> : a \in {VarDecl("x", "int", IntLit(1)), VarDecl("x", "bool", BoolLit(TRUE))},
                   s \in Scoped(MaxDepth),
                   u \in {Assign("x", IntLit(1)), Assign("x", BoolLit(TRUE))}}

\* y = 5
AssignUndeclared == <<Assign("y", IntLit(5))>>

\* y = z
AssignUndeclaredBoth == <<Assign("y", Id("z"))>>

\* var x bool = 1; x = true
DeclMismatch == <<VarDecl("x", "bool", IntLit(1)), Assign("x", BoolLit(TRUE))>>

\* var x int = 0; var y bool = 0 < x && 0 < 10 / x; println(y)
DivGuard ==
    <<VarDecl("x", "int", IntLit(0)),
      VarDecl("y", "bool", BinOp(BinOp(IntLit(0), "<", Id("x")), "&&",
                                 BinOp(IntLit(0), "<", BinOp(IntLit(10), "/", Id("x"))))),
      CallPrintln(Id("y"))>>

\* println(1)
PrintLiteral == <<CallPrintln(IntLit(1))>>

\* var x int = 1; { var x bool = true; x = false }; x = 2
Shadow ==
    <<VarDecl("x", "int", IntLit(1)),
      Block(<<VarDecl("x", "bool", BoolLit(TRUE)), Assign("x", BoolLit(FALSE))>>),
      Assign("x", IntLit(2))>>

\* var x int = 0; if x < 1 { x = 1 } else { x = 2 }; println(x)
IfElse ==
    <<VarDecl("x", "int", IntLit(0)),
      IfStmt(BinOp(Id("x"), "<", IntLit(1)),
             Block(<<Assign("x", IntLit(1))>>),
             <<Block(<<Assign("x", IntLit(2))>>)>>),
      CallPrintln(Id("x"))>>

\* 1 == true
EqMismatch == <<BinOp(IntLit(1), "==", BoolLit(TRUE))>>

Scenarios ==
    {RoundTrip, IfIntCond, AssignUndeclared, AssignUndeclaredBoth, DeclMismatch,
     DivGuard, PrintLiteral, Shadow, IfElse, EqMismatch}

Bodies == ExprPrograms \cup TypedPrograms \cup NestedPrograms \cup ScopePrograms \cup Scenarios

ProgramOf(body) == Program(Function("main", Block(body)))

(***************************************************************************)
(* Preprocessor (preprocessor.py).  A text is a sequence of characters,    *)
(* each a one-character string.                                            *)
(***************************************************************************)
NL == "\n"
Whitespace == {" ", "\t", NL}

RECURSIVE StartsWith(_, _)
StartsWith(text, prefix) ==
    IF prefix = <<>> THEN TRUE
    ELSE IF text = <<>> THEN FALSE
    ELSE Head(text) = Head(prefix) /\ StartsWith(Tail(text), Tail(prefix))

\* str.splitlines(): the lines without their ends, no line after a final end
LineEnds(text) == {i \in 1..Len(text) : text[i] = NL}
splitlines(text) ==
    LET ends == LineEnds(text)
        last == IF text # <<>> /\ text[Len(text)] # NL THEN 1 ELSE 0
        EndOf(k) == IF k = 0 THEN 0
                    ELSE IF k > Cardinality(ends) THEN Len(text) + 1
                    ELSE CHOOSE i \in ends : Cardinality({j \in ends : j <= i}) = k
    IN  [k \in 1..(Cardinality(ends) + last) |-> SubSeq(text, EndOf(k - 1) + 1, EndOf(k) - 1)]

\* str.strip(), of which startswith only needs the left end
RECURSIVE lstrip(_)
lstrip(line) ==
    IF line # <<>> /\ Head(line) \in Whitespace THEN lstrip(Tail(line)) ELSE line

\* str.replace(old, new): left to right, occurrences that do not overlap
RECURSIVE replace(_, _, _)
replace(text, old, new) ==
    IF text = <<>> THEN <<>>
    ELSE IF StartsWith(text, old)
    THEN new \o replace(SubSeq(text, Len(old) + 1, Len(text)), old, new)
    ELSE <<Head(text)>> \o replace(Tail(text), old, new)

\* "\n".join(lines)
RECURSIVE join_lines(_)
join_lines(lines) ==
    IF lines = <<>> THEN <<>>
    ELSE IF Len(lines) = 1 THEN Head(lines)
    ELSE Head(lines) \o <<NL>> \o join_lines(Tail(lines))

PackagePrefix == <<"p", "a", "c", "k", "a", "g", "e", " ">>
ImportPrefix == <<"i", "m", "p", "o", "r", "t", " ">>
FmtPrint == <<"f", "m", "t", ".", "P", "r", "i", "n", "t">>
FmtPrintln == <<"f", "m", "t", ".", "P", "r", "i", "n", "t", "l", "n">>
PrintWord == <<"p", "r", "i", "n", "t">>
PrintlnWord == <<"p", "r", "i", "n", "t", "l", "n">>

\* the loop body of preprocess for one line: <<>> when the line is dropped
preprocess_line(line) ==
    IF StartsWith(lstrip(line), PackagePrefix) \/ StartsWith(lstrip(line), ImportPrefix)
    THEN <<>>
    ELSE <<replace(replace(line, FmtPrint, PrintWord), FmtPrintln, PrintlnWord)>>

RECURSIVE preprocess_lines(_)
preprocess_lines(lines) ==
    IF lines = <<>> THEN <<>>
    ELSE preprocess_line(Head(lines)) \o preprocess_lines(Tail(lines))

preprocess(code) == join_lines(preprocess_lines(splitlines(code)))

(***************************************************************************)
(* Lexer (mg_lexer.py on ply.lex).  One lexer object serves the module:    *)
(* lexdata, lexpos (0-based) and lineno.                                   *)
(***************************************************************************)
Letters ==
    {"a", "b", "c", "d", "e", "f", "g", "h", "i", "j", "k", "l", "m",
     "n", "o", "p", "q", "r", "s", "t", "u", "v", "w", "x", "y", "z",
     "A", "B", "C", "D", "E", "F", "G", "H", "I", "J", "K", "L", "M",
     "N", "O", "P", "Q", "R", "S", "T", "U", "V", "W", "X", "Y", "Z", "_"}
DigitChars == {"0", "1", "2", "3", "4", "5", "6", "7", "8", "9"}
t_ignore == {" ", "\t"}

reserved ==
    [var |-> "VAR", func |-> "FUNC", main |-> "MAIN", int |-> "TYPE_INT",
     bool |-> "TYPE_BOOL", true |-> "TRUE", false |-> "FALSE", if |-> "IF",
     else |-> "ELSE", for |-> "FOR", print |-> "PRINT", println |-> "PRINTLN"]

\* the rules given as strings, which ply tries longest pattern first
TwoCharTokens ==
    (<<"|", "|">> :> "OR") @@ (<<"=", "=">> :> "EQUALS") @@ (<<"<", "=">> :> "LE")
    @@ (<<">", "=">> :> "GE") @@ (<<"&", "&">> :> "AND")
OneCharTokens ==
    ("+" :> "PLUS") @@ ("*" :> "TIMES") @@ ("(" :> "LPAREN") @@ (")" :> "RPAREN")
    @@ ("{" :> "LBRACE") @@ ("}" :> "RBRACE") @@ ("-" :> "MINUS") @@ ("/" :> "DIVIDE")
    @@ ("%" :> "MOD") @@ ("=" :> "ASSIGN") @@ ("<" :> "LT") @@ (">" :> "GT")
    @@ ("!" :> "NOT") @@ (";" :> "SEMICOLON") @@ ("," :> "COMMA")

NewLexer == [lexdata |-> <<>>, lexpos |-> 0, lineno |-> 1]

\* Lexer.input(s): the text and the position are replaced, lineno is kept
input(lx, s) == [lx EXCEPT !.lexdata = s, !.lexpos = 0]

\* a token; its value is kept as characters (for a NUMBER, the digits of the int)
LexToken(type, value, lineno, lexpos) ==
    [type |-> type, value |-> value, lineno |-> lineno, lexpos |-> lexpos]

RECURSIVE Join(_)
Join(chars) == IF chars = <<>> THEN "" ELSE Head(chars) \o Join(Tail(chars))

\* how many characters from index i on are in set (a regex class repeated)
RECURSIVE Span(_, _, _)
Span(data, i, set) ==
    IF i <= Len(data) /\ data[i] \in set THEN 1 + Span(data, i + 1, set) ELSE 0

\* '.*': how many characters from index i on are not a line end
RECURSIVE SpanLine(_, _)
SpanLine(data, i) ==
    IF i <= Len(data) /\ data[i] # NL THEN 1 + SpanLine(data, i + 1) ELSE 0

\* ([^"\\]|\\.)*" from index i: the index of the closing quote, 0 without one
RECURSIVE StringEnd(_, _)
StringEnd(data, i) ==
    IF i > Len(data) THEN 0
    ELSE IF data[i] = "\"" THEN i
    ELSE IF data[i] = "\\"
    THEN (IF i + 1 <= Len(data) /\ data[i + 1] # NL THEN StringEnd(data, i + 2) ELSE 0)
    ELSE StringEnd(data, i + 1)

\* the master pattern at index i: functions in the order of their definition,
\* then the string rules; t_error when nothing matches
Match(data, i) ==
    LET c == data[i]
        c2 == IF i < Len(data) THEN data[i + 1] ELSE ""
    IN  IF c = NL THEN [rule |-> "t_newline", len |-> Span(data, i, {NL})]
        ELSE IF c = "/" /\ c2 = "/" THEN [rule |-> "t_COMMENT", len |-> SpanLine(data, i)]
        ELSE IF c \in Letters
        THEN [rule |-> "t_IDENTIFIER", len |-> Span(data, i, Letters \cup DigitChars)]
        ELSE IF c \in DigitChars THEN [rule |-> "t_NUMBER", len |-> Span(data, i, DigitChars)]
        ELSE IF c = "\"" /\ StringEnd(data, i + 1) # 0
        THEN [rule |-> "t_STRING", len |-> (StringEnd(data, i + 1) - i) + 1]
        ELSE IF <<c, c2>> \in DOMAIN TwoCharTokens THEN [rule |-> TwoCharTokens[<<c, c2>>], len |-> 2]
        ELSE IF c \in DOMAIN OneCharTokens THEN [rule |-> OneCharTokens[c], len |-> 1]
        ELSE [rule |-> "t_error", len |-> 0]

\* int(t.value): a Python int has no width; it is kept as its decimal digits
RECURSIVE int_of(_)
int_of(digits) ==
    IF Len(digits) > 1 /\ Head(digits) = "0" THEN int_of(Tail(digits)) ELSE digits

\* t_STRING: the quotes removed, then the three escapes replaced in turn
t_STRING_value(text) ==
    replace(replace(replace(SubSeq(text, 2, Len(text) - 1),
                            <<"\\", "n">>, <<NL>>),
                    <<"\\", "t">>, <<"\t">>),
            <<"\\", "\"">>, <<"\"">>)

\* a skip that goes one character too far
skip_over(lx, n) == [lx EXCEPT !.lexpos = @ + n + 1]

\* Lexer.skip(n)
skip(lx, n) == [lx EXCEPT !.lexpos = @ + n]

\* one round of the loop of Lexer.token() at lexpos < lexlen: the lexer after
\* it, the token it returns (tok, at most one) and whether t_error ran
scan(lx) ==
    LET i == lx.lexpos + 1
        m == Match(lx.lexdata, i)
        text == SubSeq(lx.lexdata, i, (i + m.len) - 1)
        after == [lx EXCEPT !.lexpos = @ + m.len]
        Returned(type, value) ==
            [lexer |-> after, tok |-> <<LexToken(type, value, lx.lineno, lx.lexpos)>>,
             illegal |-> FALSE]
    IN  IF lx.lexdata[i] \in t_ignore
        THEN [lexer |-> [lx EXCEPT !.lexpos = @ + 1], tok |-> <<>>, illegal |-> FALSE]
        ELSE IF m.rule = "t_newline"
        THEN [lexer |-> [after EXCEPT !.lineno = @ + m.len], tok |-> <<>>, illegal |-> FALSE]
        ELSE IF m.rule = "t_COMMENT" THEN [lexer |-> after, tok |-> <<>>, illegal |-> FALSE]
        ELSE IF m.rule = "t_error"
        THEN [lexer |-> skip(lx, 1), tok |-> <<>>, illegal |-> TRUE]
        ELSE IF m.rule = "t_IDENTIFIER"
        THEN Returned(IF Join(text) \in DOMAIN reserved THEN reserved[Join(text)]
                      ELSE "IDENTIFIER", text)
        ELSE IF m.rule = "t_NUMBER" THEN Returned("NUMBER", int_of(text))
        ELSE IF m.rule = "t_STRING" THEN Returned("STRING", t_STRING_value(text))
        ELSE Returned(m.rule, text)

AtEnd(lx) == lx.lexpos >= Len(lx.lexdata)

\* Lexer.token(): rounds until one returns a token; tok is <<>> at the end
RECURSIVE token(_)
TokenAfter(r) == IF r.tok # <<>> THEN r ELSE token(r.lexer)
token(lx) ==
    IF AtEnd(lx) THEN [lexer |-> lx, tok |-> <<>>, illegal |-> FALSE]
    ELSE TokenAfter(scan(lx))

(***************************************************************************)
(* Parser (mg_parser.py on ply.yacc).  The grammar is read by descent over *)
(* the tokens the lexer returns; a result holds the node and the index of  *)
(* the next token, or, when not ok, the index of the token p_error gets    *)
(* (one past the last token for the end of the input).                     *)
(***************************************************************************)
NoneNode == [k |-> "None"]
Parsed(node, next) == [ok |-> TRUE, node |-> node, next |-> next]
p_error(next) == [ok |-> FALSE, node |-> NoneNode, next |-> next]

Peek(toks, i) == IF i <= Len(toks) THEN toks[i].type ELSE "$end"

\* precedence: OR lowest, then AND, EQUALS, the comparisons, PLUS MINUS,
\* TIMES DIVIDE MOD; NOT and UMINUS bind tighter than every binary operator
precedence ==
    ("OR" :> 1) @@ ("AND" :> 2) @@ ("EQUALS" :> 3)
    @@ ("LT" :> 4) @@ ("LE" :> 4) @@ ("GT" :> 4) @@ ("GE" :> 4)
    @@ ("PLUS" :> 5) @@ ("MINUS" :> 5)
    @@ ("TIMES" :> 6) @@ ("DIVIDE" :> 6) @@ ("MOD" :> 6)

DigitValue ==
    ("0" :> 0) @@ ("1" :> 1) @@ ("2" :> 2) @@ ("3" :> 3) @@ ("4" :> 4)
    @@ ("5" :> 5) @@ ("6" :> 6) @@ ("7" :> 7) @@ ("8" :> 8) @@ ("9" :> 9)

\* the int a NUMBER token holds, as a number
RECURSIVE NumOf(_, _)
NumOf(digits, n) ==
    IF digits = <<>> THEN n ELSE NumOf(Tail(digits), n * 10 + DigitValue[Head(digits)])

StatementStart ==
    {"VAR", "IDENTIFIER", "IF", "FOR", "LBRACE", "NOT", "MINUS", "LPAREN",
     "NUMBER", "STRING", "TRUE", "FALSE", "PRINT", "PRINTLN"}

RECURSIVE p_expression(_, _, _)
RECURSIVE p_expression_unary(_, _)
RECURSIVE p_expression_binop(_, _, _)
RECURSIVE p_statement(_, _)
RECURSIVE p_statement_list(_, _, _)

\* a result followed by the token of the given type
Then(toks, r, type) ==
    IF ~r.ok THEN r
    ELSE IF Peek(toks, r.next) = type THEN Parsed(r.node, r.next + 1)
    ELSE p_error(r.next)

p_expression_call(func_name, r) ==
    IF r.ok THEN Parsed(Call(func_name, <<r.node>>), r.next) ELSE r

UnaryOf(op, r) == IF r.ok THEN Parsed(UnaryOp(op, r.node), r.next) ELSE r

\* NUMBER, STRING, TRUE, FALSE, IDENTIFIER, a group, a call
p_expression_primary(toks, i) ==
    LET type == Peek(toks, i)
    IN  IF type = "NUMBER" THEN Parsed(Literal(NumOf(toks[i].value, 0), "int"), i + 1)
        ELSE IF type = "STRING" THEN Parsed(Literal(Join(toks[i].value), "string"), i + 1)
        ELSE IF type = "TRUE" THEN Parsed(Literal(TRUE, "bool"), i + 1)
        ELSE IF type = "FALSE" THEN Parsed(Literal(FALSE, "bool"), i + 1)
        ELSE IF type = "IDENTIFIER" THEN Parsed(Identifier(Join(toks[i].value)), i + 1)
        ELSE IF type = "LPAREN" THEN Then(toks, p_expression(toks, i + 1, 1), "RPAREN")
        ELSE IF type \in {"PRINT", "PRINTLN"}
        THEN (IF Peek(toks, i + 1) = "LPAREN"
              THEN Then(toks, p_expression_call(Join(toks[i].value),
                                                p_expression(toks, i + 2, 1)), "RPAREN")
              ELSE p_error(i + 1))
        ELSE p_error(i)

p_expression_unary(toks, i) ==
    IF Peek(toks, i) = "NOT" THEN UnaryOf("!", p_expression_unary(toks, i + 1))
    ELSE IF Peek(toks, i) = "MINUS" THEN UnaryOf("-", p_expression_unary(toks, i + 1))
    ELSE p_expression_primary(toks, i)

BinOpOf(toks, left, op, right, min) ==
    IF right.ok
    THEN p_expression_binop(toks, Parsed(BinOp(left.node, op, right.node), right.next), min)
    ELSE right

\* expression : expression OP expression, the operators left associative
p_expression_binop(toks, left, min) ==
    IF ~left.ok THEN left
    ELSE LET type == Peek(toks, left.next)
         IN  IF type \in DOMAIN precedence /\ precedence[type] >= min
             THEN BinOpOf(toks, left, Join(toks[left.next].value),
                          p_expression(toks, left.next + 1, precedence[type] + 1), min)
             ELSE left

p_expression(toks, i, min) == p_expression_binop(toks, p_expression_unary(toks, i), min)

p_statement_var_decl(name, type_name, r) ==
    IF r.ok THEN Parsed(VarDecl(name, type_name, r.node), r.next) ELSE r

p_statement_assign(name, r) == IF r.ok THEN Parsed(Assign(name, r.node), r.next) ELSE r

p_block(toks, i) == p_statement_list(toks, i, <<>>)

\* the else part of an if, after the RBRACE of its block
IfElseOf(cond, then_body, r) ==
    IF r.ok THEN Parsed(IfStmt(cond, then_body, <<r.node>>), r.next) ELSE r

\* the rest of an if after its first block and RBRACE
IfThenOf(toks, cond, r) ==
    IF ~r.ok THEN r
    ELSE IF Peek(toks, r.next) # "ELSE" THEN Parsed(IfStmt(cond, r.node, <<>>), r.next)
    ELSE IF Peek(toks, r.next + 1) # "LBRACE" THEN p_error(r.next + 1)
    ELSE IfElseOf(cond, r.node, Then(toks, p_block(toks, r.next + 2), "RBRACE"))

ForOf(cond, r) == IF r.ok THEN Parsed(ForStmt(cond, r.node), r.next) ELSE r

\* the condition of an if or a for, then LBRACE block RBRACE
p_statement_if(toks, cond) ==
    IF ~cond.ok THEN cond
    ELSE IfThenOf(toks, cond.node, Then(toks, p_block(toks, cond.next), "RBRACE"))

p_statement_for(toks, cond) ==
    IF ~cond.ok THEN cond
    ELSE ForOf(cond.node, Then(toks, p_block(toks, cond.next), "RBRACE"))

p_statement(toks, i) ==
    LET type == Peek(toks, i)
    IN  IF type = "VAR"
        THEN (IF Peek(toks, i + 1) # "IDENTIFIER" THEN p_error(i + 1)
              ELSE IF Peek(toks, i + 2) \notin {"TYPE_INT", "TYPE_BOOL"} THEN p_error(i + 2)
              ELSE IF Peek(toks, i + 3) # "ASSIGN" THEN p_error(i + 3)
              ELSE p_statement_var_decl(Join(toks[i + 1].value), Join(toks[i + 2].value),
                                        p_expression(toks, i + 4, 1)))
        ELSE IF type = "IDENTIFIER" /\ Peek(toks, i + 1) = "ASSIGN"
        THEN p_statement_assign(Join(toks[i].value), p_expression(toks, i + 2, 1))
        ELSE IF type = "IF"
        THEN p_statement_if(toks, Then(toks, p_expression(toks, i + 1, 1), "LBRACE"))
        ELSE IF type = "FOR"
        THEN p_statement_for(toks, Then(toks, p_expression(toks, i + 1, 1), "LBRACE"))
        ELSE IF type = "LBRACE" THEN Then(toks, p_block(toks, i + 1), "RBRACE")
        ELSE p_expression(toks, i, 1)

StatementListOf(toks, r, statements) ==
    IF r.ok THEN p_statement_list(toks, r.next, Append(statements, r.node)) ELSE r

\* statement_list : | statement_list statement
p_statement_list(toks, i, statements) ==
    IF Peek(toks, i) \in StatementStart
    THEN StatementListOf(toks, p_statement(toks, i), statements)
    ELSE Parsed(Block(statements), i)

p_func_main(r) == IF r.ok THEN Parsed(Program(Function("main", r.node)), r.next) ELSE r

\* program : FUNC MAIN LPAREN RPAREN LBRACE block RBRACE, then the end
p_program(toks) ==
    IF Peek(toks, 1) # "FUNC" THEN p_error(1)
    ELSE IF Peek(toks, 2) # "MAIN" THEN p_error(2)
    ELSE IF Peek(toks, 3) # "LPAREN" THEN p_error(3)
    ELSE IF Peek(toks, 4) # "RPAREN" THEN p_error(4)
    ELSE IF Peek(toks, 5) # "LBRACE" THEN p_error(5)
    ELSE Then(toks, p_func_main(Then(toks, p_block(toks, 6), "RBRACE")), "$end")

\* the tokens that up to n calls of Lexer.token() return from lx on, each with
\* the lexer after it, and the lexer after the last call
RECURSIVE TokenStream(_, _)
OneToken(r) == [stream |-> IF r.tok = <<>> THEN <<>> ELSE <<r>>, lexer |-> r.lexer]
StreamCat(first, rest) == [stream |-> first.stream \o rest.stream, lexer |-> rest.lexer]
StreamThen(first, n) == StreamCat(first, TokenStream(first.lexer, n))
TokenStream(lx, n) ==
    IF n = 0 THEN [stream |-> <<>>, lexer |-> lx]
    ELSE IF n = 1 THEN OneToken(token(lx))
    ELSE StreamThen(TokenStream(lx, n \div 2), n - (n \div 2))

TokensOf(stream) == [i \in 1..Len(stream) |-> stream[i].tok[1]]

(***************************************************************************)
(* Source units: the texts of the files main() hands to parse_file.        *)
(***************************************************************************)
\*   package main
\*   import "fmt"
\*   func main() {
\*    var x int = 0
\*    for x < 2 {
\*     x = x + 1
\*    }
\*    if x == 2 {
\*     fmt.Println(x)
\*    } else {
\*     fmt.Print("s")
\*    }
\*   }
UnitLoop ==
    <<"p", "a", "c", "k", "a", "g", "e", " ", "m", "a", "i", "n", NL, "i", "m", "p", "o", "r",
      "t", " ", "\"", "f", "m", "t", "\"", NL, "f", "u", "n", "c", " ", "m", "a", "i", "n",
      "(", ")", " ", "{", NL, " ", "v", "a", "r", " ", "x", " ", "i", "n", "t", " ", "=", " ",
      "0", NL, " ", "f", "o", "r", " ", "x", " ", "<", " ", "2", " ", "{", NL, " ", " ", "x",
      " ", "=", " ", "x", " ", "+", " ", "1", NL, " ", "}", NL, " ", "i", "f", " ", "x", " ",
      "=", "=", " ", "2", " ", "{", NL, " ", " ", "f", "m", "t", ".", "P", "r", "i", "n", "t",
      "l", "n", "(", "x", ")", NL, " ", "}", " ", "e", "l", "s", "e", " ", "{", NL, " ", " ",
      "f", "m", "t", ".", "P", "r", "i", "n", "t", "(", "\"", "s", "\"", ")", NL, " ", "}", NL,
      "}", NL>>

\*   package main
\*   func main() {
\*   
\*    var x int = 1;
\*   }
UnitSemicolon ==
    <<"p", "a", "c", "k", "a", "g", "e", " ", "m", "a", "i", "n", NL, "f", "u", "n", "c", " ",
      "m", "a", "i", "n", "(", ")", " ", "{", NL, NL, " ", "v", "a", "r", " ", "x", " ", "i",
      "n", "t", " ", "=", " ", "1", ";", NL, "}", NL>>

\*   func main() {
\*    x = 1 # 2
\*   }
UnitIllegal ==
    <<"f", "u", "n", "c", " ", "m", "a", "i", "n", "(", ")", " ", "{", NL, " ", "x", " ", "=",
      " ", "1", " ", "#", " ", "2", NL, "}">>

\*   // no end
\*   func main() {
\*    println(1)
UnitEof ==
    <<"/", "/", " ", "n", "o", " ", "e", "n", "d", NL, "f", "u", "n", "c", " ", "m", "a", "i",
      "n", "(", ")", " ", "{", NL, " ", "p", "r", "i", "n", "t", "l", "n", "(", "1", ")", NL>>

\*   func main() { println(1) }
UnitLiteral ==
    <<"f", "u", "n", "c", " ", "m", "a", "i", "n", "(", ")", " ", "{", " ", "p", "r", "i", "n",
      "t", "l", "n", "(", "1", ")", " ", "}", NL>>

Units == {UnitLoop, UnitSemicolon, UnitIllegal, UnitEof, UnitLiteral}

\* texts for the lexer alone: wide and padded numbers, characters no rule takes
\*   x = 4294967297
TextWide ==
    <<"x", " ", "=", " ", "4", "2", "9", "4", "9", "6", "7", "2", "9", "7">>

\*   println(2147483648)
TextEdge ==
    <<"p", "r", "i", "n", "t", "l", "n", "(", "2", "1", "4", "7", "4", "8", "3", "6", "4", "8",
      ")">>

\*   var n int = 007
TextZeros ==
    <<"v", "a", "r", " ", "n", " ", "i", "n", "t", " ", "=", " ", "0", "0", "7">>

\*   a # b @@
\*   $c
TextIllegal ==
    <<"a", " ", "#", " ", "b", " ", "@", "@", NL, "$", "c">>

\*   a & b | "s
TextAmp ==
    <<"a", " ", "&", " ", "b", " ", "|", " ", "\"", "s">>

\*   print("a\n") // c
\*   ~
TextString ==
    <<"p", "r", "i", "n", "t", "(", "\"", "a", "\\", "n", "\"", ")", " ", "/", "/", " ", "c",
      NL, "~">>

LexTexts == Units \cup {TextWide, TextEdge, TextZeros, TextIllegal, TextAmp, TextString}

(***************************************************************************)
(* The driver (main.py): main() hands the files to parse_file one after    *)
(* the other; parse_file preprocesses, tokenizes, parses, analyses and     *)
(* generates, and returns at the first stage that fails.                   *)
(***************************************************************************)
\* (first holds what an earlier analysis of the same AST returned, if there was one)
NoFiles ==
    [files |-> <<>>, code |-> <<>>, toks |-> <<>>, skipped |-> {}, syntax_error |-> <<>>,
     first |-> <<>>]
NewFiles(files) == [NoFiles EXCEPT !.files = files]

\* what parser.parse leaves: the AST or the SyntaxError of p_error, and the
\* lexer where the parser stopped asking for tokens
ParseOutcome(stream, end_lexer, r) ==
    [ok |-> r.ok,
     node |-> r.node,
     syntax_error |->
         IF r.ok THEN <<>>
         ELSE IF r.next <= Len(stream)
         THEN <<[eof |-> FALSE, lineno |-> stream[r.next].tok[1].lineno,
                 lexpos |-> stream[r.next].tok[1].lexpos]>>
         ELSE <<[eof |-> TRUE, lineno |-> 0, lexpos |-> 0]>>,
     lexer |-> IF ~r.ok /\ r.next <= Len(stream) THEN stream[r.next].lexer ELSE end_lexer]

ParseStream(s) == ParseOutcome(s.stream, s.lexer, p_program(TokensOf(s.stream)))

\* parser.parse(processed_code, lexer=lexer): lexer.input, then the grammar
\* over the tokens (a text has no more tokens than characters)
parse(lx, code) == ParseStream(TokenStream(input(lx, code), Len(code) + 1))

\* parse_file, "Preprocesamiento"
Preprocess ==
    /\ pc = "preprocess"
    /\ drv' = [drv EXCEPT !.code = preprocess(Head(drv.files))]
    /\ pc' = "tokenize"
    /\ UNCHANGED <<lexer, ast, scopes, errors, sem_todo, cg, gen_todo, rt>>

\* parse_file, "Tokenización": lexer.input(processed_code)
TokenizeInput ==
    /\ pc = "tokenize"
    /\ lexer' = input(lexer, drv.code)
    /\ pc' = "scan"
    /\ UNCHANGED <<drv, ast, scopes, errors, sem_todo, cg, gen_todo, rt>>

\* a round of the loop of lexer.token() under the loop of the tokenization
LexScan ==
    /\ pc = "scan"
    /\ ~AtEnd(lexer)
    /\ \E r \in {scan(lexer)} :
        /\ lexer' = r.lexer
        /\ drv' = [drv EXCEPT !.toks = @ \o r.tok,
                              !.skipped = IF r.illegal THEN @ \cup {lexer.lexpos} ELSE @]
    /\ UNCHANGED <<pc, ast, scopes, errors, sem_todo, cg, gen_todo, rt>>

\* lexer.token() returns None: the tokenization is over
TokenizeReturn ==
    /\ pc = "scan"
    /\ AtEnd(lexer)
    /\ pc' = "parse"
    /\ UNCHANGED <<lexer, drv, ast, scopes, errors, sem_todo, cg, gen_todo, rt>>

\* a parse_file that goes on to the analysis whatever parser.parse did
after_parse_any(r) == "analyze"

\* parse_file after parser.parse: the analysis, or None for a SyntaxError
after_parse(r) == IF r.ok THEN "analyze" ELSE "syntax_error"

\* parse_file, "Análisis sintáctico", and on success the fresh analyzer
Parse ==
    /\ pc = "parse"
    /\ \E r \in {parse(lexer, drv.code)} :
        /\ lexer' = r.lexer
        /\ drv' = [drv EXCEPT !.syntax_error = r.syntax_error]
        /\ ast' = r.node
        /\ pc' = after_parse(r)
        /\ sem_todo' = IF r.ok THEN <<Visit(r.node, <<>>)>> ELSE <<>>
    /\ UNCHANGED <<scopes, errors, cg, gen_todo, rt>>

\* parse_file has returned; main() calls it on the next file.  The analyzer
\* and the generator are made anew, the lexer is the module's one lexer.
FileReturned == pc \in {"syntax_error", "rejected", "failed", "no_object", "run"}
NextFile ==
    /\ FileReturned
    /\ Len(drv.files) > 1
    /\ drv' = NewFiles(Tail(drv.files))
    /\ pc' = "preprocess"
    /\ ast' = NoneNode
    /\ scopes' = NewSymbolTable
    /\ errors' = <<>>
    /\ sem_todo' = <<>>
    /\ cg' = NewCodeGen
    /\ gen_todo' = <<>>
    /\ rt' = NewRun
    /\ UNCHANGED lexer

\* main.py parse_file: the analyzer runs on the parsed AST, the generator only
\* when no error was recorded
InitOn(bodies) ==
    /\ lexer = NewLexer
    /\ drv = NoFiles
    /\ ast \in {ProgramOf(body) : body \in bodies}
    /\ pc = "analyze"
    /\ scopes = NewSymbolTable
    /\ errors = <<>>
    /\ sem_todo = <<Visit(ast, <<>>)>>
    /\ cg = NewCodeGen
    /\ gen_todo = <<>>
    /\ rt = NewRun

Init == InitOn(Bodies)

Next ==
    \/ SemVisitProgram \/ SemVisitBlock \/ SemExitScope
    \/ SemVisitVarDecl \/ SemVisitAssign \/ SemVisitIfStmt \/ SemVisitForStmt
    \/ SemVisitExpr \/ SemAnalyzeReturn
    \/ GenVisitProgram \/ GenVisitBlock \/ GenVisitVarDecl \/ GenVisitAssign
    \/ GenVisitExpr \/ GenVisitIfStmt \/ GenIfThenEnd \/ GenIfElseEnd
    \/ GenVisitForStmt \/ GenForBodyEnd \/ GenRaise \/ GenCompileReturn
    \/ EmitModule \/ RunInstr \/ RunTrap \/ RunBranch \/ RunRet

Spec == Init /\ [][Next]_vars

\* the scenario programs alone, the pipeline and the compiled program being
\* run without being stopped: while a phase has a step to take (Running), a
\* step is eventually taken.  Every step of Next changes pc or one of
\* sem_todo, gen_todo and rt, which is how Advance tells a step.
InitScenarios == InitOn(Scenarios)

PcValues ==
    {"analyze", "rejected", "generate", "failed", "emit", "no_object", "run", "done", "trapped"}
Running == pc \in {"analyze", "generate", "emit", "run"}
Advance ==
    /\ Running
    /\ \/ pc' \in PcValues \ {pc} /\ UNCHANGED <<lexer, drv, ast, scopes, errors, sem_todo, cg, gen_todo, rt>>
       \/ pc' # pc
       \/ <<sem_todo', gen_todo', rt'>> # <<sem_todo, gen_todo, rt>>

FairSpec == InitScenarios /\ [][Next]_vars /\ WF_vars(Advance)

\* CodeGen.compile called on an AST directly, analysed or not
InitGen ==
    /\ lexer = NewLexer
    /\ drv = NoFiles
    /\ ast \in {ProgramOf(body) : body \in Bodies}
    /\ pc = "generate"
    /\ scopes = NewSymbolTable
    /\ errors = <<>>
    /\ sem_todo = <<>>
    /\ cg = NewCodeGen
    /\ gen_todo = <<Visit(ast, <<>>)>>
    /\ rt = NewRun

NextGen ==
    \/ GenVisitProgram \/ GenVisitBlock \/ GenVisitVarDecl \/ GenVisitAssign
    \/ GenVisitExpr \/ GenVisitIfStmt \/ GenIfThenEnd \/ GenIfElseEnd
    \/ GenVisitForStmt \/ GenForBodyEnd \/ GenRaise \/ GenCompileReturn

SpecGen == InitGen /\ [][NextGen]_vars

\* main(): up to MaxUnits files, each one of Units, handed to parse_file
MaxUnits == 2

RECURSIVE SeqsUpTo(_, _)
SeqsUpTo(set, n) ==
    IF n = 0 THEN {<<>>}
    ELSE LET shorter == SeqsUpTo(set, n - 1)
         IN  shorter \cup {Append(s, e) : s \in shorter, e \in set}

InitFront ==
    /\ drv \in {NewFiles(files) : files \in SeqsUpTo(Units, MaxUnits) \ {<<>>}}
    /\ lexer = NewLexer
    /\ pc = "preprocess"
    /\ ast = NoneNode
    /\ scopes = NewSymbolTable
    /\ errors = <<>>
    /\ sem_todo = <<>>
    /\ cg = NewCodeGen
    /\ gen_todo = <<>>
    /\ rt = NewRun

NextFront ==
    \/ Preprocess \/ TokenizeInput \/ LexScan \/ TokenizeReturn \/ Parse \/ NextFile
    \/ SemVisitProgram \/ SemVisitBlock \/ SemExitScope
    \/ SemVisitVarDecl \/ SemVisitAssign \/ SemVisitIfStmt \/ SemVisitForStmt
    \/ SemVisitExpr \/ SemAnalyzeReturn
    \/ GenVisitProgram \/ GenVisitBlock \/ GenVisitVarDecl \/ GenVisitAssign
    \/ GenVisitExpr \/ GenVisitIfStmt \/ GenIfThenEnd \/ GenIfElseEnd
    \/ GenVisitForStmt \/ GenForBodyEnd \/ GenRaise \/ GenCompileReturn
    \/ EmitModule

SpecFront == InitFront /\ [][NextFront]_vars

\* the lexer alone on one text, as the tokenization of parse_file drives it
InitLex ==
    /\ drv \in {[NoFiles EXCEPT !.code = text] : text \in LexTexts}
    /\ lexer = NewLexer
    /\ pc = "tokenize"
    /\ ast = NoneNode
    /\ scopes = NewSymbolTable
    /\ errors = <<>>
    /\ sem_todo = <<>>
    /\ cg = NewCodeGen
    /\ gen_todo = <<>>
    /\ rt = NewRun

NextLex == TokenizeInput \/ LexScan \/ TokenizeReturn

SpecLex == InitLex /\ [][NextLex]_vars

\* an analyzer that starts with the diagnostics it finds lying around
KeptErrors == errors

\* SemanticAnalyzer.__init__: self.errors = []
NewErrors == <<>>

\* analyze() has returned and a second SemanticAnalyzer is made for the same AST
AnalyzeAgain ==
    /\ pc \in {"generate", "rejected"}
    /\ drv.first = <<>>
    /\ drv' = [drv EXCEPT !.first = <<[ok |-> pc = "generate", errors |-> errors]>>]
    /\ pc' = "analyze"
    /\ scopes' = NewSymbolTable
    /\ errors' = NewErrors
    /\ sem_todo' = <<Visit(ast, <<>>)>>
    /\ cg' = NewCodeGen
    /\ gen_todo' = <<>>
    /\ UNCHANGED <<lexer, ast, rt>>

NextTwice ==
    \/ SemVisitProgram \/ SemVisitBlock \/ SemExitScope
    \/ SemVisitVarDecl \/ SemVisitAssign \/ SemVisitIfStmt \/ SemVisitForStmt
    \/ SemVisitExpr \/ SemAnalyzeReturn \/ AnalyzeAgain

SpecTwice == Init /\ [][NextTwice]_vars

(***************************************************************************)
(* Properties.                                                             *)
(***************************************************************************)
Compiled == pc \in {"emit", "run", "no_object", "done", "trapped"}

IsPrefix(p, q) == Len(p) <= Len(q) /\ SubSeq(q, 1, Len(p)) = p

\* C1: whenever analyze() returned True for a program (no error recorded),
\* CodeGen.compile on that program completes without raising.
C1_AcceptedProgramCompiles == (pc = "generate" /\ errors = <<>>) => ~Raised(cg)

\* C2: when compile() completes, every basic block of main has exactly one
\* terminator, every branch targets a block of main and every conditional
\* branch has two distinct successor blocks.
C2_BlocksTerminatedOnce ==
    pc = "emit" =>
        \A b \in Blocks(cg) :
            /\ Len(cg.blocks[b].term) = 1
            /\ \A i \in 1..Len(Term(cg, b).to) : Term(cg, b).to[i] \in Blocks(cg)
            /\ Term(cg, b).op = "cbr" =>
                   /\ Len(Term(cg, b).to) = 2
                   /\ Term(cg, b).to[1] # Term(cg, b).to[2]

\* a completed compile of a program with an if, a for, an && and an ||
C2_Witness ==
    /\ pc = "emit"
    /\ \A kind \in {"if", "for", "and", "or"} :
           \E b \in Blocks(cg) : Term(cg, b).op = "cbr" /\ Term(cg, b).aux = kind

\* C3: in the code of L && R and of L || R, no instruction that evaluates R
\* lies in a block that is executed before the branch on L is decided: every
\* instruction of R is in the 'right' block or behind it.
C3_RightOperandBehindBranch ==
    Compiled =>
        \A b \in Blocks(cg) :
            (Term(cg, b).op = "cbr" /\ Term(cg, b).aux \in {"and", "or"}) =>
                \A d \in Blocks(cg) :
                    dominates(cg, d, b) =>
                        \A i \in 1..Len(Instrs(cg, d)) :
                            ~IsPrefix(Right(Term(cg, b).path), Instrs(cg, d)[i].path)

\* C4 as stated: the round-trip program runs to its end and has then printed
\* "Suma de pares: " followed by 20 and a newline.
C4_RoundTripPrints20 ==
    (ast = ProgramOf(RoundTrip) /\ pc = "done") => rt.out = "Suma de pares: 20\n"

\* C4: the round-trip program is accepted by the analysis, its generation
\* succeeds, and the execution of the generated code terminates having printed
\* "Suma de pares: " followed by 30 and a newline.
C4_RoundTripPrints30 ==
    (ast = ProgramOf(RoundTrip)) ~> (pc = "done" /\ rt.out = "Suma de pares: 30\n")

\* the round-trip program has run to its return
C4_Witness == ast = ProgramOf(RoundTrip) /\ pc = "done" /\ errors = <<>>

Range(f) == {f[i] : i \in DOMAIN f}
Min(S) == CHOOSE m \in S : \A n \in S : m <= n
Names == {"x", "y", "z", "w", "a", "b", "c"}

\* lexical scoping read off the AST: the type that name is bound to at the
\* position path below node, outer being its binding around node.  In a Block
\* the first declaration of the name before the position is the binding.
RECURSIVE ResolveAt(_, _, _, _)
ResolveAt(node, path, name, outer) ==
    IF path = <<>> THEN outer
    ELSE CASE node.k = "Block" ->
                LET ds == {j \in 1..(Head(path) - 1) :
                              /\ node.statements[j].k = "VarDecl"
                              /\ node.statements[j].name = name
                              /\ node.statements[j].type_name \in {"int", "bool"}}
                    local == IF ds = {} THEN outer ELSE node.statements[Min(ds)].type_name
                IN  ResolveAt(node.statements[Head(path)], Tail(path), name, local)
           [] node.k = "IfStmt" /\ Head(path) = 2 ->
                ResolveAt(node.then_body, Tail(path), name, outer)
           [] node.k = "IfStmt" /\ Head(path) = 3 ->
                ResolveAt(node.else_body[1], Tail(path), name, outer)
           [] node.k = "ForStmt" /\ Head(path) = 2 ->
                ResolveAt(node.body, Tail(path), name, outer)
           [] OTHER -> outer

\* at every visit of the analyzer, lookup gives each name its lexical binding
LookupIsLexical ==
    (pc = "analyze" /\ sem_todo # <<>> /\ SemHead.t = "visit" /\ SemHead.node.k # "Program") =>
        \A n \in Names :
            lookup(scopes, n) = ResolveAt(ast.func_main.body, SemHead.path, n, None)

\* visit_VarDecl of a name of the innermost scope records the redeclaration and
\* changes no binding; of any other name it binds the name in the innermost
\* scope, records no redeclaration and leaves the enclosing scopes alone
DeclareStep ==
    LET node == SemHead.node
        top == Len(scopes)
        new == SubSeq(errors', Len(errors) + 1, Len(errors'))
    IN  IF node.name \in DOMAIN scopes[top]
        THEN /\ new = <<Err("redeclared", node.name, "")>>
             /\ scopes' = scopes
        ELSE /\ \A e \in Range(new) : e.msg # "redeclared"
             /\ Len(scopes') = top
             /\ \A j \in 1..(top - 1) : scopes'[j] = scopes[j]
             /\ lookup(scopes', node.name) = node.type_name

\* C5: a VarDecl of a name already in the innermost scope records an error and
\* leaves the binding unchanged; a VarDecl of a name declared only in an
\* enclosing scope is accepted; lookups resolve to the inner declaration until
\* the inner Block ends and to the outer one again afterwards.
C5_ScopedDeclarations ==
    /\ []LookupIsLexical
    /\ [][SemVisitVarDecl => (SubSeq(errors', 1, Len(errors)) = errors /\ DeclareStep)]_vars

\* the statement after a Block that redeclared x as bool is visited with x
\* bound to the outer int again, the inner x = false having been accepted
C5_Witness ==
    /\ ast = ProgramOf(Shadow)
    /\ pc = "analyze"
    /\ sem_todo # <<>>
    /\ SemHead.t = "visit"
    /\ SemHead.path = <<3>>
    /\ lookup(scopes, "x") = "int"
    /\ errors = <<>>

\* the errors a visit of an expression statement records at its own node
OwnErrors ==
    Len(errors') - Len(errors)
    - Len(sem_visit_expr(scopes, SemHead.node.left))
    - Len(sem_visit_expr(scopes, SemHead.node.right))

\* C6: visiting a BinOp with operator ==, the analyzer records an error when
\* the types of the two operands differ and none at that node when they are
\* the same.
C6_EqualityTypesChecked ==
    [][(SemVisitExpr /\ SemHead.node.k = "BinOp" /\ SemHead.node.op = "==") =>
          LET left_type == infer_type(scopes, SemHead.node.left)
              right_type == infer_type(scopes, SemHead.node.right)
          IN  /\ (left_type # None /\ right_type # None /\ left_type # right_type)
                     => OwnErrors > 0
              /\ left_type = right_type => OwnErrors = 0]_vars

\* C7: an Assign to a name declared in no scope records the undeclared error
\* and every error of its right-hand side.
C7_UndeclaredTargetVisitsRhs ==
    [][(SemVisitAssign /\ lookup(scopes, SemHead.node.name) = None) =>
          LET new == SubSeq(errors', Len(errors) + 1, Len(errors'))
          IN  /\ Err("undeclared", SemHead.node.name, "") \in Range(new)
              /\ \A e \in Range(sem_visit_expr(scopes, SemHead.node.expr)) :
                     e \in Range(new)]_vars

\* C8: an Assign to an undeclared name whose right-hand side has no error
\* records exactly one error, the undeclared one.
C8_UndeclaredTargetOneError ==
    [][(/\ SemVisitAssign
        /\ lookup(scopes, SemHead.node.name) = None
        /\ sem_visit_expr(scopes, SemHead.node.expr) = <<>>) =>
          errors' = Append(errors, Err("undeclared", SemHead.node.name, ""))]_vars

\* y = 5 was rejected with the one error
C8_Witness ==
    /\ ast = ProgramOf(AssignUndeclared)
    /\ pc = "rejected"
    /\ errors = <<Err("undeclared", "y", "")>>

\* C9: a VarDecl of a valid type and of a name new to its scope, whose
\* initializer has no error and another type than the declared one, records
\* exactly one error, the type mismatch, and binds the name to the declared
\* type.
C9_MismatchedInitializerOneError ==
    [][(/\ SemVisitVarDecl
        /\ SemHead.node.type_name \in {"int", "bool"}
        /\ declare_ok(scopes, SemHead.node.name)
        /\ sem_visit_expr(declare(scopes, SemHead.node.name, SemHead.node.type_name),
                          SemHead.node.expr) = <<>>
        /\ infer_type(declare(scopes, SemHead.node.name, SemHead.node.type_name),
                      SemHead.node.expr) \notin {None, SemHead.node.type_name}) =>
          /\ errors' = Append(errors,
                 Err("decl_type_mismatch", SemHead.node.type_name,
                     infer_type(scopes', SemHead.node.expr)))
          /\ lookup(scopes', SemHead.node.name) = SemHead.node.type_name]_vars

\* var x bool = 1; x = true was rejected with the mismatch alone: the later
\* x = true found x declared as bool
C9_Witness ==
    /\ ast = ProgramOf(DeclMismatch)
    /\ pc = "rejected"
    /\ errors = <<Err("decl_type_mismatch", "bool", "int")>>

\* C10: if 1+1 { println(1) } passes the analysis and the generation, and its
\* execution prints 1.
C10_IntConditionCompiles ==
    ast = ProgramOf(IfIntCond) =>
        /\ pc \notin {"rejected", "failed", "no_object", "trapped"}
        /\ pc = "done" => rt.out = "1\n"

\* C11: visiting a BinOp with an arithmetic, relational or logical operator,
\* the analyzer records exactly one error at that node when an operand has not
\* the required type (int, int, bool) and none otherwise, whatever the operand
\* types (int, bool, string, none known); infer_type gives the node int for an
\* arithmetic operator and bool for a relational or logical one.
C11_BinOpTypeRules ==
    [][(/\ SemVisitExpr
        /\ SemHead.node.k = "BinOp"
        /\ SemHead.node.op \in ArithOps \cup CmpOps \cup LogicOps) =>
          LET op == SemHead.node.op
              left_type == infer_type(scopes, SemHead.node.left)
              right_type == infer_type(scopes, SemHead.node.right)
              required == IF op \in LogicOps THEN "bool" ELSE "int"
          IN  /\ OwnErrors = IF left_type # required \/ right_type # required THEN 1 ELSE 0
              /\ infer_type(scopes, SemHead.node) = IF op \in ArithOps THEN "int" ELSE "bool"]_vars

\* true && "s" was rejected with the one error of the && node
C11_Witness ==
    /\ ast = ProgramOf(<<BinOp(BoolLit(TRUE), "&&", StrLit("s"))>>)
    /\ pc = "rejected"
    /\ errors = <<Err("logic_expects_bool", "&&", "")>>

\* the visits still due below node, in source order, when the visit at the
\* position rel below node (abs from the function body) is the next one
RECURSIVE Pending(_, _, _)
Pending(node, rel, abs) ==
    IF rel = <<>> THEN <<Visit(node, abs)>>
    ELSE CASE node.k = "Block" ->
                Pending(node.statements[Head(rel)], Tail(rel), Append(abs, Head(rel)))
                \o [j \in 1..(Len(node.statements) - Head(rel)) |->
                       Visit(node.statements[Head(rel) + j], Append(abs, Head(rel) + j))]
           [] node.k = "IfStmt" /\ Head(rel) = 2 ->
                Pending(node.then_body, Tail(rel), Append(abs, 2))
                \o [j \in 1..Len(node.else_body) |-> Visit(node.else_body[j], Append(abs, 3))]
           [] node.k = "IfStmt" /\ Head(rel) = 3 ->
                Pending(node.else_body[1], Tail(rel), Append(abs, 3))
           [] node.k = "ForStmt" /\ Head(rel) = 2 ->
                Pending(node.body, Tail(rel), Append(abs, 2))
           [] OTHER -> <<>>

IsVisit(task) == task.t = "visit"

\* whatever was recorded so far, every later statement of the Block being
\* analyzed and of the enclosing Blocks is still to be visited, in source order
AllSiblingsPending ==
    (pc = "analyze" /\ sem_todo # <<>> /\ SemHead.t = "visit" /\ SemHead.node.k # "Program") =>
        SelectSeq(sem_todo, IsVisit) = Pending(ast.func_main.body, SemHead.path, <<>>)

\* C12: after a statement recorded errors, every later statement of its Block
\* and of the enclosing Blocks is still analyzed; analyze() returns without
\* raising; the diagnostics are kept in the order they were recorded, which is
\* the source order of the statements.
C12_AnalysisContinuesAfterErrors ==
    /\ []AllSiblingsPending
    /\ [][/\ SubSeq(errors', 1, Len(errors)) = errors
          /\ pc = "analyze" => pc' \in {"analyze", "generate", "rejected"}]_vars

\* var x int = 1; { x = true; x = true }; x = true: the two errors of the
\* inner Block, then the error of the statement after it
C12_Witness ==
    /\ ast = ProgramOf(<<VarDecl("x", "int", IntLit(1)),
                         Block(<<Assign("x", BoolLit(TRUE)), Assign("x", BoolLit(TRUE))>>),
                         Assign("x", BoolLit(TRUE))>>)
    /\ pc = "rejected"
    /\ errors = <<Err("assign_type_mismatch", "int", "bool"),
                  Err("assign_type_mismatch", "int", "bool"),
                  Err("assign_type_mismatch", "int", "bool")>>

\* the moves of parse_file from one stage to the next, and of main() to the
\* next file once parse_file has returned
StageMoves ==
    {<<"preprocess", "tokenize">>, <<"tokenize", "scan">>, <<"scan", "parse">>,
     <<"parse", "analyze">>, <<"parse", "syntax_error">>,
     <<"analyze", "generate">>, <<"analyze", "rejected">>, <<"analyze", "failed">>,
     <<"generate", "emit">>, <<"generate", "failed">>,
     <<"emit", "run">>, <<"emit", "no_object">>, <<"emit", "failed">>}
    \cup {<<r, "preprocess">> : r \in {"syntax_error", "rejected", "failed", "no_object", "run"}}

\* a file whose parse raised SyntaxError: no analyzer and no generator has run
SyntaxErrorStops ==
    pc = "syntax_error" =>
        /\ drv.syntax_error # <<>>
        /\ ast = NoneNode
        /\ <<scopes, errors, sem_todo>> = <<NewSymbolTable, <<>>, <<>>>>
        /\ <<cg, gen_todo>> = <<NewCodeGen, <<>>>>

\* C13: parse_file runs its stages in the order preprocess, tokenize, parse,
\* analyze, generate, each only after the one before it succeeded: the analysis
\* starts only on the Program a successful parse returned, a syntax error is
\* followed by neither analysis nor generation, and CodeGen.compile starts only
\* when analyze has finished with no diagnostic.
C13_StagesInOrder ==
    /\ []SyntaxErrorStops
    /\ [][/\ pc' # pc => <<pc, pc'>> \in StageMoves
          /\ pc' = "tokenize" => drv'.code = preprocess(Head(drv.files))
          /\ (pc = "scan" /\ pc' = "parse") => lexer.lexdata = drv.code /\ AtEnd(lexer)
          /\ (pc = "parse" /\ pc' = "analyze") => ast'.k = "Program" /\ drv'.syntax_error = <<>>
          /\ (pc = "analyze" /\ pc' = "generate") => errors = <<>> /\ sem_todo = <<>>
          /\ (pc = "generate" /\ pc' # pc) => errors = <<>>]_vars

\* the first file stopped at its syntax error, the second is being compiled
C13_Witness ==
    /\ drv.files = <<UnitLoop>>
    /\ lexer.lineno > 21
    /\ pc = "emit"
    /\ errors = <<>>

\* the line of the character at lexpos (0-based) in text, the first line being 1
LineOf(text, lexpos) == 1 + Cardinality({i \in 1..lexpos : text[i] = NL})

\* C14: whatever files were processed before, the SyntaxError of a file names
\* the line of the offending token counted from line 1 of the file's own
\* preprocessed text.
C14_SyntaxErrorLine ==
    (pc = "syntax_error" /\ ~drv.syntax_error[1].eof) =>
        drv.syntax_error[1].lineno = LineOf(drv.code, drv.syntax_error[1].lexpos)

\* the text with a space in the place of each character at the positions
Blanked(text, positions) ==
    [i \in 1..Len(text) |-> IF (i - 1) \in positions THEN " " ELSE text[i]]

\* the character at lexpos is one no rule takes
UnrecognizedAt(lx) ==
    /\ ~AtEnd(lx)
    /\ lx.lexdata[lx.lexpos + 1] \notin t_ignore
    /\ Match(lx.lexdata, lx.lexpos + 1).rule = "t_error"

\* the tokenization is over and has returned every token of the text, those
\* after an unrecognized character as if a space stood in its place
AllTokensReturned ==
    pc = "parse" =>
        /\ AtEnd(lexer)
        /\ drv.toks = TokensOf(TokenStream(input(NewLexer, Blanked(drv.code, drv.skipped)),
                                           Len(drv.code) + 1).stream)

\* C15: lexing a text ends without an exception: every round of the scan moves
\* on in the text and stays within it, an unrecognized character gives no
\* token and moves the position by exactly one character, the scan goes on,
\* and the tokens after such a character are all returned.
C15_LexingSkipsIllegalCharacters ==
    /\ []AllTokensReturned
    /\ [][pc = "scan" =>
            /\ pc' \in {"scan", "parse"}
            /\ pc' = "scan" => lexer.lexpos < lexer'.lexpos /\ lexer'.lexpos <= Len(lexer.lexdata)
            /\ UnrecognizedAt(lexer) =>
                  /\ pc' = "scan"
                  /\ lexer' = [lexer EXCEPT !.lexpos = @ + 1]
                  /\ drv'.toks = drv.toks]_vars

\* a # b @@ $c has been scanned: four characters skipped, a, b and c returned
C15_Witness ==
    /\ pc = "parse"
    /\ drv.code = TextIllegal
    /\ drv.skipped = {2, 6, 7, 9}
    /\ [i \in 1..Len(drv.toks) |-> drv.toks[i].value] = <<<<"a">>, <<"b">>, <<"c">>>>

\* the number the digits write, modulo 2^32, as its two 16-bit halves
RECURSIVE Halves32(_, _, _)
Halves32(digits, hi, lo) ==
    IF digits = <<>> THEN <<hi, lo>>
    ELSE LET low == lo * 10 + DigitValue[Head(digits)]
         IN  Halves32(Tail(digits), (hi * 10 + low \div 65536) % 65536, low % 65536)

\* the signed 32-bit value native wraparound gives the literal
Wrapped32(digits) ==
    LET h == Halves32(digits, 0, 0)
    IN  IF h[1] >= 32768 THEN (h[1] - 65536) * 65536 + h[2] ELSE h[1] * 65536 + h[2]

\* the digits of the literal the token was made from
LiteralOf(text, tok) == SubSeq(text, tok.lexpos + 1, tok.lexpos + Span(text, tok.lexpos + 1, DigitChars))

\* C16: the payload of every NUMBER token is the value of its literal under
\* signed 32-bit wraparound, the value for a literal that fits and the wrapped
\* value for one that does not (the generator emits the payload as it is).
C16_WideLiteralWraps ==
    \A i \in 1..Len(drv.toks) :
        drv.toks[i].type = "NUMBER" =>
            LET wrapped == Wrapped32(LiteralOf(drv.code, drv.toks[i]))
            IN  /\ wrapped >= 0     \* the payload of a NUMBER token carries no sign
                /\ Join(drv.toks[i].value) = Dec(wrapped)

C18_PhiMatchesPredecessors ==
    pc = "emit" =>
        \A b \in Blocks(cg) : \A i \in 1..Len(Instrs(cg, b)) :
            Instrs(cg, b)[i].op = "phi" =>
                /\ \A j \in 1..Len(Instrs(cg, b)[i].blks) :
                       b \in Successors(cg, Instrs(cg, b)[i].blks[j])
                /\ \A p \in Predecessors(cg, b) :
                       Cardinality({j \in 1..Len(Instrs(cg, b)[i].blks) :
                                       Instrs(cg, b)[i].blks[j] = p}) = 1

\* lexical scoping read off the AST, as ResolveAt but giving the declaration:
\* the path of the VarDecl that name is bound to at the position path below
\* node, node being at the path here and outer the declaration around it
\* (<<>> when there is none)
RECURSIVE DeclAt(_, _, _, _, _)
DeclAt(node, here, path, name, outer) ==
    IF path = <<>> THEN outer
    ELSE CASE node.k = "Block" ->
                LET ds == {j \in 1..(Head(path) - 1) :
                              /\ node.statements[j].k = "VarDecl"
                              /\ node.statements[j].name = name
                              /\ node.statements[j].type_name \in {"int", "bool"}}
                    local == IF ds = {} THEN outer ELSE Append(here, Min(ds))
                IN  DeclAt(node.statements[Head(path)], Append(here, Head(path)),
                           Tail(path), name, local)
           [] node.k = "IfStmt" /\ Head(path) = 2 ->
                DeclAt(node.then_body, Append(here, 2), Tail(path), name, outer)
           [] node.k = "IfStmt" /\ Head(path) = 3 ->
                DeclAt(node.else_body[1], Append(here, 3), Tail(path), name, outer)
           [] node.k = "ForStmt" /\ Head(path) = 2 ->
                DeclAt(node.body, Append(here, 2), Tail(path), name, outer)
           [] OTHER -> outer

\* the VarDecl whose visit emitted the alloca that is the slot
SlotDecl(c, slot) == Instrs(c, def_block(c, slot.n))[def_index(c, slot.n)].path

\* C19: in an accepted program, at every statement the generator visits, the
\* slot it reads and writes for a name is the slot of the declaration the
\* analyzer's lookup resolves the name to there: the inner one inside a block
\* that redeclares the name, the outer one again once that block has ended.
C19_SlotOfResolvedDeclaration ==
    (pc = "generate" /\ ~Raised(cg) /\ gen_todo # <<>> /\ GenHead.t = "visit"
        /\ GenHead.node.k # "Program") =>
        \A n \in Names :
            DeclAt(ast.func_main.body, <<>>, GenHead.path, n, <<>>) # <<>> =>
                /\ n \in DOMAIN cg.vars
                /\ SlotDecl(cg, cg.vars[n])
                     = DeclAt(ast.func_main.body, <<>>, GenHead.path, n, <<>>)

\* C20: the slot of every source variable is allocated once, at function
\* entry: every alloca of the module compile() has built stands in the entry
\* block of main, also the one of a VarDecl inside the body of an if or a for.
C20_AllocasInEntryBlock ==
    pc = "emit" =>
        \A b \in Blocks(cg) : \A i \in 1..Len(Instrs(cg, b)) :
            Instrs(cg, b)[i].op = "alloca" => b = 1


\* the name llvmlite gives a global: the functions by their name, a constant
\* by f"str.{n}" or f"fmt.{n}"
GlobalName(g) == IF g.kind \in {"printf", "main"} THEN g.kind ELSE g.kind \o "." \o Dec(g.n)

\* the global constants of the module, in creation order
GlobalConstants == SelectSeq(cg.globals, LAMBDA g : g.kind \in {"str", "fmt"})

\* C21: at every point of a compilation the global constants of the module
\* (str.N, fmt.N) have pairwise distinct names, none of them printf or main,
\* their numeric suffixes increase strictly in creation order, and a step of
\* the generator only appends to the globals it has.
C21_GlobalNamesUnique ==
    /\ [](\A i, j \in 1..Len(cg.globals) :
             i # j => GlobalName(cg.globals[i]) # GlobalName(cg.globals[j]))
    /\ [](\A i \in 1..Len(GlobalConstants) :
             GlobalName(GlobalConstants[i]) \notin {"printf", "main"})
    /\ [](\A i, j \in 1..Len(GlobalConstants) :
             i < j => GlobalConstants[i].n < GlobalConstants[j].n)
    /\ [][IsPrefix(cg.globals, cg.globals')]_vars

\* a compilation that ended with a str and two fmt constants in the module
C21_Witness ==
    /\ pc = "emit"
    /\ \E i, j, k \in 1..Len(GlobalConstants) :
          /\ i < j /\ j < k
          /\ GlobalConstants[i].kind = "str"
          /\ GlobalConstants[j].kind = "fmt"
          /\ GlobalConstants[k].kind = "fmt"


\* the Blocks that enclose the node at the position, counted from the body of
\* main down to the node (the node itself is not counted)
RECURSIVE BlocksEnclosing(_, _)
BlocksEnclosing(node, path) ==
    IF path = <<>> THEN 0
    ELSE CASE node.k = "Block" ->
                1 + BlocksEnclosing(node.statements[Head(path)], Tail(path))
           [] node.k = "IfStmt" /\ Head(path) = 2 ->
                BlocksEnclosing(node.then_body, Tail(path))
           [] node.k = "IfStmt" /\ Head(path) = 3 ->
                BlocksEnclosing(node.else_body[1], Tail(path))
           [] node.k = "ForStmt" /\ Head(path) = 2 ->
                BlocksEnclosing(node.body, Tail(path))
           [] OTHER -> 0

\* the visit_Block calls that have entered their scope and not yet left it
OpenBlocks == Cardinality({i \in 1..Len(sem_todo) : sem_todo[i].t = "exit_scope"})

\* C22: during analysis the scope stack is never empty and exit_scope never
\* raises; visit_Block pushes one empty scope on entry and its exit_scope pops
\* one, the scope of that Block (the stack holds the global scope and one scope
\* per open Block); the depth at the visit of a node is one plus the number of
\* Blocks enclosing it; when the traversal is over the stack is the single
\* initial scope, and no declaration is ever made in that scope.
C22_ScopeStackBalanced ==
    /\ [](Len(scopes) >= 1 /\ scopes[1] = EmptyScope)
    /\ [](pc = "analyze" => Len(scopes) = 1 + OpenBlocks)
    /\ []((pc = "analyze" /\ sem_todo # <<>> /\ SemHead.t = "visit") =>
             Len(scopes) = 1 + BlocksEnclosing(ast.func_main.body, SemHead.path))
    /\ [](sem_todo = <<>> => scopes = NewSymbolTable)
    /\ [][SemVisitBlock => scopes' = Append(scopes, EmptyScope)]_vars
    /\ [][SemExitScope =>
             /\ ~exit_scope_raises(scopes)
             /\ pc' = "analyze"
             /\ scopes' = SubSeq(scopes, 1, Len(scopes) - 1)]_vars

\* the analysis of the program with a declaration in a nested Block is over
\* and the stack is the initial one
C22_Witness ==
    /\ ast = ProgramOf(Shadow)
    /\ pc = "analyze"
    /\ sem_todo = <<>>
    /\ scopes = NewSymbolTable

====
